---------------------------- MODULE Spec2Model ----------------------------
(***************************************************************************)
(* Ingredient-line parser of the cocktail editor: text normalisation,      *)
(* fuzzy matching, master data (vocabulary) building with its module-level *)
(* cache, and the line parser.                                             *)
(*                                                                         *)
(* A string is a sequence of characters; a character is a one-character    *)
(* string.  Offsets are the 0-based, half-open offsets of the source.      *)
(* The combining diaeresis U+0308 is written "U+0308".                     *)
(***************************************************************************)
EXTENDS Integers, Sequences, FiniteSets, TLC

\* ------------------------------------------------------------------------
\* Optional values (undefined / null in the source)
\* ------------------------------------------------------------------------
None == <<>>

\* TRUE; used to have TLC evaluate an accumulator before it is passed on
\* (TLC passes the arguments of an operator unevaluated)
Evaluated(x) == x = x

Some(x) == <<x>>

\* ------------------------------------------------------------------------
\* Characters and JavaScript string primitives
\* ------------------------------------------------------------------------
\* The characters \s matches, as far as they occur in the inputs.
Ws == {" ", "\t", "\n", "\r"}

\* \d
Digit == {"0", "1", "2", "3", "4", "5", "6", "7", "8", "9"}

LowerAscii ==
  {"a", "b", "c", "d", "e", "f", "g", "h", "i", "j", "k", "l", "m",
   "n", "o", "p", "q", "r", "s", "t", "u", "v", "w", "x", "y", "z"}

UpperAscii ==
  {"A", "B", "C", "D", "E", "F", "G", "H", "I", "J", "K", "L", "M",
   "N", "O", "P", "Q", "R", "S", "T", "U", "V", "W", "X", "Y", "Z"}

\* [a-zA-Z]
AsciiLetter == LowerAscii \cup UpperAscii

\* \w, the characters that are not a word boundary (\b)
WordChar == AsciiLetter \cup Digit \cup {"_"}

\* String.prototype.toLowerCase, per character
LowerMap ==
  "A" :> "a" @@ "B" :> "b" @@ "C" :> "c" @@ "D" :> "d" @@ "E" :> "e" @@
  "F" :> "f" @@ "G" :> "g" @@ "H" :> "h" @@ "I" :> "i" @@ "J" :> "j" @@
  "K" :> "k" @@ "L" :> "l" @@ "M" :> "m" @@ "N" :> "n" @@ "O" :> "o" @@
  "P" :> "p" @@ "Q" :> "q" @@ "R" :> "r" @@ "S" :> "s" @@ "T" :> "t" @@
  "U" :> "u" @@ "V" :> "v" @@ "W" :> "w" @@ "X" :> "x" @@ "Y" :> "y" @@
  "Z" :> "z" @@ "Ä" :> "ä" @@ "Ö" :> "ö" @@ "Ü" :> "ü"

toLowerCaseChar(c) == IF c \in DOMAIN LowerMap THEN LowerMap[c] ELSE c

toLowerCase(s) == [i \in 1..Len(s) |-> toLowerCaseChar(s[i])]

\* String.prototype.normalize("NFD"), per character: canonical decomposition
NfdMap ==
  "ä" :> <<"a", "U+0308">> @@ "ö" :> <<"o", "U+0308">> @@
  "ü" :> <<"u", "U+0308">> @@ "Ä" :> <<"A", "U+0308">> @@
  "Ö" :> <<"O", "U+0308">> @@ "Ü" :> <<"U", "U+0308">>

\* \p{Diacritic}, as far as it occurs in the inputs
Diacritic == {"U+0308"}

RECURSIVE FlatMapChars(_, _, _)
\* the concatenation of f[c] (or <<c>> where f is undefined) over s from i on
FlatMapChars(s, f, i) ==
  IF i > Len(s) THEN <<>>
  ELSE (IF s[i] \in DOMAIN f THEN f[s[i]] ELSE <<s[i]>>) \o FlatMapChars(s, f, i + 1)

nfd(s) == FlatMapChars(s, NfdMap, 1)

\* s.slice(a, b) and s.slice(a)
slice(s, a, b) == SubSeq(s, a + 1, b)

sliceFrom(s, a) == SubSeq(s, a + 1, Len(s))

RECURSIVE RunIn(_, _, _)
\* length of the longest run of characters of cls in s from offset p
RunIn(s, p, cls) ==
  IF p < Len(s) /\ s[p + 1] \in cls THEN 1 + RunIn(s, p + 1, cls) ELSE 0

RECURSIVE RunNotIn(_, _, _)
\* length of the longest run of characters outside cls in s from offset p
RunNotIn(s, p, cls) ==
  IF p < Len(s) /\ s[p + 1] \notin cls THEN 1 + RunNotIn(s, p + 1, cls) ELSE 0

RECURSIVE RunInBack(_, _, _)
\* length of the longest run of characters of cls in s ending at offset e
RunInBack(s, e, cls) ==
  IF e > 0 /\ s[e] \in cls THEN 1 + RunInBack(s, e - 1, cls) ELSE 0

\* String.prototype.trim
trim(s) ==
  LET a == RunIn(s, 0, Ws)
  IN  IF a = Len(s) THEN <<>> ELSE slice(s, a, Len(s) - RunInBack(s, Len(s), Ws))

\* s.startsWith(w, p)
StartsWithAt(s, p, w) ==
  /\ p + Len(w) <= Len(s)
  /\ \A i \in 1..Len(w) : s[p + i] = w[i]

\* s.indexOf(w, from); -1 when w does not occur at or after from
indexOf(s, w, from) ==
  LET hits == {p \in from..(Len(s) - Len(w)) : StartsWithAt(s, p, w)}
  IN  IF hits = {} THEN -1 ELSE CHOOSE p \in hits : \A q \in hits : p <= q

RECURSIVE CollapseWs(_, _)
\* s.replace(/\s+/g, " ") from offset p on
CollapseWs(s, p) ==
  IF p >= Len(s) THEN <<>>
  ELSE IF s[p + 1] \in Ws THEN <<" ">> \o CollapseWs(s, p + RunIn(s, p, Ws))
  ELSE <<s[p + 1]>> \o CollapseWs(s, p + 1)

\* s.replace(/\s+/g, "")
RemoveWs(s) == SelectSeq(s, LAMBDA c : c \notin Ws)

\* ------------------------------------------------------------------------
\* fuzzy.ts
\* ------------------------------------------------------------------------
\* the white space at the ends is kept
normaliseTextUntrimmed(value) ==
  CollapseWs(
    toLowerCase(SelectSeq(nfd(value), LAMBDA c : c \notin Diacritic)), 0)

normaliseText(value) ==
  CollapseWs(
    trim(toLowerCase(SelectSeq(nfd(value), LAMBDA c : c \notin Diacritic))), 0)

Min3(x, y, z) == IF x <= y /\ x <= z THEN x ELSE IF y <= z THEN y ELSE z

RECURSIVE LevRow(_, _, _, _, _)
\* row i of the edit-distance matrix, filled left to right from row i-1
LevRow(a, b, i, prev, cur) ==
  IF Len(cur) = Len(b) + 1 THEN cur
  ELSE LET j == Len(cur)
           cost == IF a[i] = b[j] THEN 0 ELSE 1
           next == Append(cur, Min3(prev[j + 1] + 1, cur[j] + 1, prev[j] + cost))
       IN  IF Evaluated(next) THEN LevRow(a, b, i, prev, next) ELSE next

RECURSIVE LevRows(_, _, _, _)
LevRows(a, b, i, prev) ==
  IF i > Len(a) THEN prev[Len(b) + 1]
  ELSE LET row == LevRow(a, b, i, prev, <<i>>)
       IN  IF Evaluated(row) THEN LevRows(a, b, i + 1, row) ELSE 0

levenshtein(a, b) ==
  IF a = b THEN 0
  ELSE IF Len(a) = 0 THEN Len(b)
  ELSE IF Len(b) = 0 THEN Len(a)
  ELSE LevRows(a, b, 1, [j \in 1..(Len(b) + 1) |-> j - 1])

\* A score is the exact fraction num/den (den > 0).
ScoreGeq(s, t) == s.num * t.den >= t.num * s.den

ScoreEq(s, t) == s.num * t.den = t.num * s.den

Max(x, y) == IF x >= y THEN x ELSE y

\* the distance divided by the length of the first string
similarityOfFirstLength(a, b) ==
  LET normalisedA == normaliseText(a)
      normalisedB == normaliseText(b)
  IN  IF Len(normalisedA) = 0 /\ Len(normalisedB) = 0 THEN [num |-> 1, den |-> 1]
      ELSE IF Len(normalisedA) = 0 \/ Len(normalisedB) = 0 THEN [num |-> 0, den |-> 1]
      ELSE LET distance == levenshtein(normalisedA, normalisedB)
               maxLength == Len(normalisedA)
           IN  [num |-> maxLength - distance, den |-> maxLength]

similarity(a, b) ==
  LET normalisedA == normaliseText(a)
      normalisedB == normaliseText(b)
  IN  IF Len(normalisedA) = 0 /\ Len(normalisedB) = 0 THEN [num |-> 1, den |-> 1]
      ELSE IF Len(normalisedA) = 0 \/ Len(normalisedB) = 0 THEN [num |-> 0, den |-> 1]
      ELSE LET distance == levenshtein(normalisedA, normalisedB)
               maxLength == Max(Len(normalisedA), Len(normalisedB))
           IN  [num |-> maxLength - distance, den |-> maxLength]

\* String.prototype.localeCompare (root collation): primary difference by
\* base character (white space, punctuation, digits, letters; case and
\* diacritics ignored), then unaccented before accented, then lower case
\* before upper case.  The result is -1, 0 or 1.
CollationSeq ==
  <<"\t", "\n", "\r", " ", "_", "-", ",", ".", "(", ")", "/", "%",
    "0", "1", "2", "3", "4", "5", "6", "7", "8", "9",
    "a", "b", "c", "d", "e", "f", "g", "h", "i", "j", "k", "l", "m",
    "n", "o", "p", "q", "r", "s", "t", "u", "v", "w", "x", "y", "z">>

CollationRank(c) ==
  LET at == {i \in 1..Len(CollationSeq) : CollationSeq[i] = c}
  IN  IF at = {} THEN Len(CollationSeq) + 1 ELSE CHOOSE i \in at : TRUE

PrimaryKey(s) ==
  LET base == toLowerCase(SelectSeq(nfd(s), LAMBDA c : c \notin Diacritic))
  IN  [i \in 1..Len(base) |-> CollationRank(base[i])]

SecondaryKey(s) == [i \in 1..Len(s) |-> IF s[i] \in DOMAIN NfdMap THEN 1 ELSE 0]

TertiaryKey(s) == [i \in 1..Len(s) |-> IF toLowerCaseChar(s[i]) # s[i] THEN 1 ELSE 0]

RECURSIVE CompareKeys(_, _, _)
\* lexicographic comparison of two sequences of numbers from index i on
CompareKeys(a, b, i) ==
  IF i > Len(a) /\ i > Len(b) THEN 0
  ELSE IF i > Len(a) THEN -1
  ELSE IF i > Len(b) THEN 1
  ELSE IF a[i] < b[i] THEN -1
  ELSE IF a[i] > b[i] THEN 1
  ELSE CompareKeys(a, b, i + 1)

localeCompare(a, b) ==
  LET p == CompareKeys(PrimaryKey(a), PrimaryKey(b), 1)
      s == CompareKeys(SecondaryKey(a), SecondaryKey(b), 1)
  IN  IF p # 0 THEN p
      ELSE IF s # 0 THEN s
      ELSE CompareKeys(TertiaryKey(a), TertiaryKey(b), 1)

\* xs.slice(0, n)
Take(xs, n) == SubSeq(xs, 1, IF n < Len(xs) THEN n ELSE Len(xs))

\* default of the limit option of suggest
DefaultLimit == 5

SuggestionBefore(x, y) ==
  \/ ~ScoreGeq(y.score, x.score)
  \/ ScoreEq(x.score, y.score) /\ localeCompare(x.value, y.value) < 0

RECURSIVE InsertSuggestion(_, _)
\* x inserted into the sorted sequence xs after every element it does not
\* precede (Array.prototype.sort is stable)
InsertSuggestion(xs, x) ==
  IF xs = <<>> THEN <<x>>
  ELSE IF SuggestionBefore(x, xs[Len(xs)])
       THEN Append(InsertSuggestion(SubSeq(xs, 1, Len(xs) - 1), x), xs[Len(xs)])
       ELSE Append(xs, x)

RECURSIVE SortSuggestions(_)
SortSuggestions(xs) ==
  IF xs = <<>> THEN <<>>
  ELSE InsertSuggestion(SortSuggestions(SubSeq(xs, 1, Len(xs) - 1)), xs[Len(xs)])

suggest(query, values, limit, minScore) ==
  IF Len(values) = 0 THEN <<>>
  ELSE IF trim(query) = <<>>
  THEN [i \in 1..Len(Take(values, limit)) |->
          [value |-> values[i], score |-> [num |-> 1, den |-> 1]]]
  ELSE LET scored == [i \in 1..Len(values) |->
                        [value |-> values[i], score |-> similarity(query, values[i])]]
           kept == SelectSeq(scored, LAMBDA entry : ScoreGeq(entry.score, minScore))
       IN  Take(SortSuggestions(kept), limit)

\* ------------------------------------------------------------------------
\* Map<string, V> as the sequence of its entries in insertion order
\* ------------------------------------------------------------------------
MapHas(m, k) == \E i \in 1..Len(m) : m[i].key = k

MapGet(m, k) == m[CHOOSE i \in 1..Len(m) : m[i].key = k].val

\* a set that leaves the value of an existing key as it is
MapSetIfAbsent(m, k, v) ==
  IF MapHas(m, k) THEN m ELSE Append(m, [key |-> k, val |-> v])

\* Map.prototype.set: an existing key keeps its place and takes the new value
MapSet(m, k, v) ==
  IF MapHas(m, k)
  THEN [m EXCEPT ![CHOOSE i \in 1..Len(m) : m[i].key = k] = [key |-> k, val |-> v]]
  ELSE Append(m, [key |-> k, val |-> v])

\* ------------------------------------------------------------------------
\* utils.ts
\* ------------------------------------------------------------------------
RECURSIVE split(_, _)
\* s.split(sep) for a one-character separator
split(s, sep) ==
  LET n == RunNotIn(s, 0, {sep})
  IN  IF n = Len(s) THEN <<s>>
      ELSE <<slice(s, 0, n)>> \o split(sliceFrom(s, n + 1), sep)

ingredientsFromRezeptur(rezeptur) ==
  LET parts == split(rezeptur, ",")
      trimmed == [i \in 1..Len(parts) |-> trim(parts[i])]
  IN  SelectSeq(trimmed, LAMBDA ingredient : Len(ingredient) > 0)

\* ------------------------------------------------------------------------
\* The regular expression /\(.*?\)/g of master-data.ts and parser.ts
\* ------------------------------------------------------------------------
\* the characters "." does not match
LineTerminator == {"\n", "\r"}

\* end offset of the match of \(.*?\) at offset p of s, or -1: from "(" to
\* the nearest ")" with no line terminator in between
ParenMatchEnd(s, p) ==
  IF p < Len(s) /\ s[p + 1] = "("
  THEN LET n == RunNotIn(s, p + 1, {")"} \cup LineTerminator)
       IN  IF p + 1 + n < Len(s) /\ s[p + 2 + n] = ")" THEN p + 2 + n ELSE -1
  ELSE -1

RECURSIVE ParenMatches(_, _)
\* value.match(/\(.*?\)/g) from offset p on: the matched substrings in order
ParenMatches(s, p) ==
  IF p >= Len(s) THEN <<>>
  ELSE LET e == ParenMatchEnd(s, p)
       IN  IF e >= 0 THEN <<slice(s, p, e)>> \o ParenMatches(s, e)
           ELSE ParenMatches(s, p + 1)

RECURSIVE RemoveParens(_, _)
\* value.replace(/\(.*?\)/g, "") from offset p on
RemoveParens(s, p) ==
  IF p >= Len(s) THEN <<>>
  ELSE LET e == ParenMatchEnd(s, p)
       IN  IF e >= 0 THEN RemoveParens(s, e)
           ELSE <<s[p + 1]>> \o RemoveParens(s, p + 1)

RECURSIVE Join(_, _)
\* parts.join(sep)
Join(parts, sep) ==
  IF parts = <<>> THEN <<>>
  ELSE IF Len(parts) = 1 THEN parts[1]
  ELSE parts[1] \o sep \o Join(Tail(parts), sep)

\* ------------------------------------------------------------------------
\* master-data.ts
\* ------------------------------------------------------------------------
\* A MasterRecord is an object: heap[id] holds the fields of the record with
\* identity id.  The records of BASE_UNITS and BASE_INGREDIENTS are the first
\* objects of the heap.
BASE_UNITS ==
  <<
  [name |-> <<"c", "l">>,
   aliases |-> Some(<< <<"z", "e", "n", "t", "i", "l", "i", "t", "e", "r">>,
          <<"c", "e", "n", "t", "i", "l", "i", "t", "e", "r">>,
          <<"c", "L">>,
          <<"c", "l", ".">> >>),
   popularity |-> None],
  [name |-> <<"m", "l">>,
   aliases |-> Some(<< <<"m", "i", "l", "l", "i", "l", "i", "t", "e", "r">>,
          <<"m", "i", "l", "l", "i", "l", "i", "t", "r", "e">>,
          <<"m", "L">>,
          <<"m", "l", ".">> >>),
   popularity |-> None],
  [name |-> <<"T", "L">>,
   aliases |-> Some(<< <<"t", "e", "e", "l", "ö", "f", "f", "e", "l">>,
          <<"t", "e", "e", "l", "o", "e", "f", "f", "e", "l">>,
          <<"t", "e", "a", "s", "p", "o", "o", "n">>,
          <<"t", "s", "p">> >>),
   popularity |-> None],
  [name |-> <<"E", "L">>,
   aliases |-> Some(<< <<"e", "s", "s", "l", "ö", "f", "f", "e", "l">>,
          <<"e", "s", "s", "l", "o", "e", "f", "f", "e", "l">>,
          <<"t", "a", "b", "l", "e", "s", "p", "o", "o", "n">>,
          <<"t", "b", "s", "p">> >>),
   popularity |-> None],
  [name |-> <<"D", "a", "s", "h">>,
   aliases |-> Some(<< <<"d", "a", "s", "h">>,
          <<"s", "p", "r", "i", "t", "z", "e", "r">>,
          <<"d", "a", "s", "h", "s">> >>),
   popularity |-> None],
  [name |-> <<"P", "r", "i", "s", "e">>,
   aliases |-> Some(<< <<"p", "r", "i", "s", "e">>,
          <<"p", "i", "n", "c", "h">> >>),
   popularity |-> None],
  [name |-> <<"S", "t", "ü", "c", "k">>,
   aliases |-> Some(<< <<"s", "t", "ü", "c", "k">>,
          <<"s", "t", "ü", "c", "k", "e">>,
          <<"p", "i", "e", "c", "e">>,
          <<"p", "i", "e", "c", "e", "s">>,
          <<"s", "t", "k">>,
          <<"s", "t", "k", ".">> >>),
   popularity |-> None],
  [name |-> <<"S", "c", "h", "e", "i", "b", "e">>,
   aliases |-> Some(<< <<"s", "c", "h", "e", "i", "b", "e">>,
          <<"s", "c", "h", "e", "i", "b", "e", "n">>,
          <<"s", "l", "i", "c", "e">>,
          <<"s", "l", "i", "c", "e", "s">> >>),
   popularity |-> None],
  [name |-> <<"h", "a", "n", "d", "v", "o", "l", "l">>,
   aliases |-> Some(<< <<"h", "a", "n", "d", "v", "o", "l", "l">>,
          <<"h", "a", "n", "d", " ", "v", "o", "l", "l">>,
          <<"h", "a", "n", "d", "f", "u", "l", "l">> >>),
   popularity |-> None],
  [name |-> <<"B", "a", "r", "l", "ö", "f", "f", "e", "l">>,
   aliases |-> Some(<< <<"b", "a", "r", "l", "ö", "f", "f", "e", "l">>,
          <<"b", "a", "r", " ", "l", "o", "e", "f", "f", "e", "l">>,
          <<"b", "a", "r", " ", "s", "p", "o", "o", "n">>,
          <<"b", "a", "r", "s", "p", "o", "o", "n">> >>),
   popularity |-> None],
  [name |-> <<"F", "i", "l", "l", "e", "r">>,
   aliases |-> Some(<< <<"a", "u", "f", "f", "ü", "l", "l", "e", "n">>,
          <<"t", "o", "p", " ", "u", "p">>,
          <<"f", "i", "l", "l">>,
          <<"f", "i", "l", "l", "e", "r">> >>),
   popularity |-> None],
  [name |-> <<"%">>,
   aliases |-> Some(<< <<"%">>,
          <<"p", "r", "o", "z", "e", "n", "t">>,
          <<"p", "e", "r", "c", "e", "n", "t">> >>),
   popularity |-> None]
  >>

BASE_INGREDIENTS ==
  <<
  [name |-> <<"R", "u", "m">>,
   aliases |-> Some(<< <<"w", "e", "i", "s", "s", "e", "r", " ", "r", "u", "m">>,
          <<"b", "r", "a", "u", "n", "e", "r", " ", "r", "u", "m">> >>),
   popularity |-> None],
  [name |-> <<"B", "a", "c", "a", "r", "d", "i">>,
   aliases |-> None,
   popularity |-> None],
  [name |-> <<"W", "o", "d", "k", "a">>,
   aliases |-> Some(<< <<"v", "o", "d", "k", "a">> >>),
   popularity |-> None],
  [name |-> <<"G", "i", "n">>,
   aliases |-> None,
   popularity |-> None],
  [name |-> <<"T", "e", "q", "u", "i", "l", "a">>,
   aliases |-> None,
   popularity |-> None],
  [name |-> <<"T", "r", "i", "p", "l", "e", " ", "S", "e", "c">>,
   aliases |-> Some(<< <<"c", "o", "i", "n", "t", "r", "e", "a", "u">> >>),
   popularity |-> None],
  [name |-> <<"L", "i", "m", "e", "t", "t", "e", "n", "s", "a", "f", "t">>,
   aliases |-> Some(<< <<"l", "i", "m", "e", "t", "t", "e", "n", "s", "a", "f", "t", " ", "f", "r", "i", "s", "c", "h">>,
          <<"l", "i", "m", "e", " ", "j", "u", "i", "c", "e">> >>),
   popularity |-> None],
  [name |-> <<"Z", "i", "t", "r", "o", "n", "e", "n", "s", "a", "f", "t">>,
   aliases |-> Some(<< <<"l", "e", "m", "o", "n", " ", "j", "u", "i", "c", "e">>,
          <<"z", "i", "t", "r", "o", "n", "e", "n", "s", "a", "f", "t", " ", "f", "r", "i", "s", "c", "h">> >>),
   popularity |-> None],
  [name |-> <<"Z", "u", "c", "k", "e", "r", "s", "i", "r", "u", "p">>,
   aliases |-> Some(<< <<"z", "u", "c", "k", "e", "r", " ", "s", "i", "r", "u", "p">>,
          <<"s", "i", "r", "u", "p">> >>),
   popularity |-> None],
  [name |-> <<"A", "n", "g", "o", "s", "t", "u", "r", "a", " ", "B", "i", "t", "t", "e", "r", "s">>,
   aliases |-> Some(<< <<"a", "n", "g", "o", "s", "t", "u", "r", "a">>,
          <<"a", "n", "g", "o", "s", "t", "o", "r", "a">> >>),
   popularity |-> None],
  [name |-> <<"M", "a", "r", "a", "c", "u", "j", "a">>,
   aliases |-> Some(<< <<"p", "a", "s", "s", "i", "o", "n", " ", "f", "r", "u", "i", "t">>,
          <<"m", "a", "r", "a", "c", "u", "j", "a", " ", "n", "e", "c", "t", "a", "r">> >>),
   popularity |-> None],
  [name |-> <<"M", "i", "n", "z", "e">>,
   aliases |-> Some(<< <<"f", "r", "i", "s", "c", "h", "e", " ", "m", "i", "n", "z", "e">>,
          <<"m", "i", "n", "t">> >>),
   popularity |-> None],
  [name |-> <<"E", "i", "s", "w", "ü", "r", "f", "e", "l">>,
   aliases |-> Some(<< <<"e", "i", "s">>,
          <<"i", "c", "e">> >>),
   popularity |-> None],
  [name |-> <<"E", "s", "p", "r", "e", "s", "s", "o">>,
   aliases |-> None,
   popularity |-> None]
  >>

BaseHeap == BASE_UNITS \o BASE_INGREDIENTS

BaseUnitIds == [i \in 1..Len(BASE_UNITS) |-> i]

BaseIngredientIds == [i \in 1..Len(BASE_INGREDIENTS) |-> Len(BASE_UNITS) + i]

RECURSIVE IndexAliases(_, _, _, _)
\* record.aliases?.forEach((alias) => map.set(normaliseText(alias), record))
IndexAliases(map, aliases, i, id) ==
  IF i > Len(aliases) THEN map
  ELSE LET next == MapSet(map, normaliseText(aliases[i]), id)
       IN  IF Evaluated(next) THEN IndexAliases(next, aliases, i + 1, id) ELSE next

RECURSIVE IndexRecords(_, _, _, _)
IndexRecords(map, h, records, i) ==
  IF i > Len(records) THEN map
  ELSE LET record == h[records[i]]
           withName == MapSet(map, normaliseText(record.name), records[i])
           aliases == IF record.aliases = None THEN <<>> ELSE record.aliases[1]
           next == IndexAliases(withName, aliases, 1, records[i])
       IN  IF Evaluated(next) THEN IndexRecords(next, h, records, i + 1) ELSE next

\* the index maps a normalised key to the identity of a record of h
buildIndex(h, records) == IndexRecords(<<>>, h, records, 1)

\* the record itself put into the map, no copy made
ShareRecord(h, id) == [heap |-> h, ref |-> id]

\* { ...record, aliases: record.aliases ? [...record.aliases] : undefined }
\* of a record of the heap: a new object with the same field values
CopyRecord(h, id) == [heap |-> Append(h, h[id]), ref |-> Len(h) + 1]

RECURSIVE MergeBase(_, _, _)
\* base.forEach: st = [heap, map], map from name to record identity
MergeBase(st, base, i) ==
  IF i > Len(base) THEN st
  ELSE LET copy == CopyRecord(st.heap, base[i])
           next == [heap |-> copy.heap,
                    map |-> MapSet(st.map, st.heap[base[i]].name, copy.ref)]
       IN  IF Evaluated(next) THEN MergeBase(next, base, i + 1) ELSE next

RECURSIVE Dedupe(_)
\* Array.from(new Set(xs)): first occurrences, in order
Dedupe(xs) ==
  IF xs = <<>> THEN <<>>
  ELSE LET init == Dedupe(SubSeq(xs, 1, Len(xs) - 1))
           last == xs[Len(xs)]
       IN  IF \E i \in 1..Len(init) : init[i] = last THEN init ELSE Append(init, last)

\* x ?? d for an optional x
OrElse(x, d) == IF x = None THEN d ELSE x[1]

\* one step of dynamic.forEach on st = [heap, map]; a dynamic record is a
\* value (a fresh object nothing else refers to)
MergeOne(st, record) ==
  IF MapHas(st.map, record.name)
  THEN LET existing == MapGet(st.map, record.name)
           old == st.heap[existing]
           merged ==
             [old EXCEPT
                !.aliases = Some(Dedupe(OrElse(old.aliases, <<>>)
                                        \o OrElse(record.aliases, <<>>))),
                !.popularity = Some(Max(OrElse(old.popularity, 0),
                                        OrElse(record.popularity, 0)))]
       IN  [heap |-> [st.heap EXCEPT ![existing] = merged], map |-> st.map]
  ELSE [heap |-> Append(st.heap, record),
        map |-> MapSet(st.map, record.name, Len(st.heap) + 1)]

RECURSIVE MergeDynamic(_, _, _)
MergeDynamic(st, dynamic, i) ==
  IF i > Len(dynamic) THEN st
  ELSE LET next == MergeOne(st, dynamic[i])
       IN  IF Evaluated(next) THEN MergeDynamic(next, dynamic, i + 1) ELSE next

RecordBefore(h, x, y) == localeCompare(h[x].name, h[y].name) < 0

RECURSIVE InsertRecord(_, _, _)
InsertRecord(h, xs, x) ==
  IF xs = <<>> THEN <<x>>
  ELSE IF RecordBefore(h, x, xs[Len(xs)])
       THEN Append(InsertRecord(h, SubSeq(xs, 1, Len(xs) - 1), x), xs[Len(xs)])
       ELSE Append(xs, x)

RECURSIVE SortRecords(_, _)
\* records.sort((a, b) => a.name.localeCompare(b.name))
SortRecords(h, xs) ==
  IF xs = <<>> THEN <<>>
  ELSE InsertRecord(h, SortRecords(h, SubSeq(xs, 1, Len(xs) - 1)), xs[Len(xs)])

\* [heap, records]: the heap after the merge and the identities of the merged
\* records, sorted by name
mergeRecords(h, base, dynamic) ==
  LET st == MergeDynamic(MergeBase([heap |-> h, map |-> <<>>], base, 1), dynamic, 1)
      values == [i \in 1..Len(st.map) |-> st.map[i].val]
  IN  [heap |-> st.heap, records |-> SortRecords(st.heap, values)]

\* end offset of the match of /^\d+\s*[a-zA-Z%]+\s+/u in s, or -1
AmountUnitPrefixEnd(s) ==
  LET d == RunIn(s, 0, Digit)
      w == RunIn(s, d, Ws)
      l == RunIn(s, d + w, AsciiLetter \cup {"%"})
      t == RunIn(s, d + w + l, Ws)
  IN  IF d > 0 /\ l > 0 /\ t > 0 THEN d + w + l + t ELSE -1

\* ingredient.replace(/^\d+\s*[a-zA-Z%]+\s+/u, "").trim()
DynamicKey(ingredient) ==
  LET e == AmountUnitPrefixEnd(ingredient)
  IN  trim(IF e >= 0 THEN sliceFrom(ingredient, e) ELSE ingredient)

RECURSIVE CountKeys(_, _, _)
\* counts.set(key, (counts.get(key) ?? 0) + 1) for every non-empty key
CountKeys(counts, keys, i) ==
  IF i > Len(keys) THEN counts
  ELSE IF keys[i] = <<>> THEN CountKeys(counts, keys, i + 1)
  ELSE LET next == MapSet(counts, keys[i],
                          (IF MapHas(counts, keys[i]) THEN MapGet(counts, keys[i]) ELSE 0) + 1)
       IN  IF Evaluated(next) THEN CountKeys(next, keys, i + 1) ELSE next

RECURSIVE CountCocktails(_, _, _)
CountCocktails(counts, cocktails, i) ==
  IF i > Len(cocktails) THEN counts
  ELSE LET lines == ingredientsFromRezeptur(cocktails[i].Rezeptur)
           stripped == [k \in 1..Len(lines) |-> trim(RemoveParens(lines[k], 0))]
           kept == SelectSeq(stripped, LAMBDA ingredient : Len(ingredient) > 0)
           keys == [k \in 1..Len(kept) |-> DynamicKey(kept[k])]
           next == CountKeys(counts, keys, 1)
       IN  IF Evaluated(next) THEN CountCocktails(next, cocktails, i + 1) ELSE next

extractDynamicIngredients(cocktails) ==
  LET counts == CountCocktails(<<>>, cocktails, 1)
  IN  [i \in 1..Len(counts) |->
         [name |-> counts[i].key, aliases |-> None, popularity |-> Some(counts[i].val)]]

\* JSON.stringify of a string without characters to escape
JsonString(s) == <<"\"">> \o s \o <<"\"">>

\* JSON.stringify(cocktails.map((cocktail) => cocktail.Cocktail))
CacheKey(cocktails) ==
  <<"[">> \o Join([i \in 1..Len(cocktails) |-> JsonString(cocktails[i].Cocktail)], <<",">>)
         \o <<"]">>

\* the object literal const master = { ... } on heap h: [heap, master]
MasterOf(h, units, ingredients) ==
  [heap |-> h,
   master |->
     [units |-> units,
      ingredients |-> ingredients,
      unitIndex |-> buildIndex(h, units),
      ingredientIndex |-> buildIndex(h, ingredients),
      unitValues |-> [i \in 1..Len(units) |-> h[units[i]].name],
      ingredientValues |-> [i \in 1..Len(ingredients) |-> h[ingredients[i]].name]]]

\* const units = mergeRecords(BASE_UNITS, []) after the ingredients were
\* merged, and the master object of both
MasterWithUnits(ingredients, units) ==
  MasterOf(units.heap, units.records, ingredients.records)

MasterWithIngredients(ingredients) ==
  MasterWithUnits(ingredients, mergeRecords(ingredients.heap, BaseUnitIds, <<>>))

\* the MasterData object built for a corpus on heap h: [heap, master]
NewMasterData(h, cocktails) ==
  MasterWithIngredients(
    mergeRecords(h, BaseIngredientIds, extractDynamicIngredients(cocktails)))

\* cachedKey = key; cachedData = master; return master
Publish(key, built) ==
  [heap |-> built.heap, cachedKey |-> key, cachedData |-> Some(built.master),
   result |-> built.master]

\* buildMasterData storing the new key and leaving a MasterData already
\* cached in place
buildMasterDataKeyOnly(m, cocktails) ==
  IF m.cachedData # None /\ m.cachedKey = CacheKey(cocktails)
  THEN [heap |-> m.heap, cachedKey |-> m.cachedKey, cachedData |-> m.cachedData,
        result |-> m.cachedData[1]]
  ELSE [Publish(CacheKey(cocktails), NewMasterData(m.heap, cocktails)) EXCEPT
          !.cachedData = IF m.cachedData = None THEN @ ELSE m.cachedData]

\* buildMasterData on the module state m = [heap, cachedKey, cachedData]:
\* the module state after the call and the MasterData it returns
buildMasterData(m, cocktails) ==
  IF m.cachedData # None /\ m.cachedKey = CacheKey(cocktails)
  THEN [heap |-> m.heap, cachedKey |-> m.cachedKey, cachedData |-> m.cachedData,
        result |-> m.cachedData[1]]
  ELSE Publish(CacheKey(cocktails), NewMasterData(m.heap, cocktails))

\* raw.replace(/[.,]+$/g, "")
StripTrailing(s, cls) == slice(s, 0, Len(s) - RunInBack(s, Len(s), cls))

UnitMinScore == [num |-> 7, den |-> 10]

UnitOkScore == [num |-> 85, den |-> 100]

IngredientMinScore == [num |-> 6, den |-> 10]

IngredientOkScore == [num |-> 8, den |-> 10]

\* a fuzzy match is never ok
FromAlternativesAlwaysFuzzy(alternatives, values, okScore) ==
  IF Len(alternatives) > 0
  THEN [name |-> Some(alternatives[1].value),
        status |-> "fuzzy",
        suggestions |-> [i \in 1..Len(alternatives) |-> alternatives[i].value]]
  ELSE [name |-> None, status |-> "new", suggestions |-> Take(values, 5)]

\* what resolveUnit and resolveIngredient return when the index has no
\* entry: the best of the alternatives, or the first five values
FromAlternatives(alternatives, values, okScore) ==
  IF Len(alternatives) > 0
  THEN [name |-> Some(alternatives[1].value),
        status |-> IF ScoreGeq(alternatives[1].score, okScore) THEN "ok" ELSE "fuzzy",
        suggestions |-> [i \in 1..Len(alternatives) |-> alternatives[i].value]]
  ELSE [name |-> None, status |-> "new", suggestions |-> Take(values, 5)]

\* the part resolveUnit and resolveIngredient share: text is the cleaned
\* token, index and values those of the field
Resolve(text, h, index, values, minScore, okScore) ==
  LET normalised == normaliseText(text)
  IN  IF MapHas(index, normalised)
      THEN [name |-> Some(h[MapGet(index, normalised)].name), status |-> "ok",
            suggestions |-> <<>>]
      ELSE FromAlternatives(suggest(text, values, DefaultLimit, minScore), values,
                            okScore)

resolveUnit(raw, h, masterData) ==
  LET cleaned == StripTrailing(raw, {".", ","})
  IN  IF trim(cleaned) = <<>>
      THEN [name |-> None, status |-> "missing", suggestions |-> <<>>]
      ELSE Resolve(cleaned, h, masterData.unitIndex, masterData.unitValues,
                   UnitMinScore, UnitOkScore)

resolveIngredient(raw, h, masterData) ==
  LET trimmed == trim(raw)
  IN  IF trimmed = <<>>
      THEN [name |-> None, status |-> "missing", suggestions |-> <<>>]
      ELSE Resolve(trimmed, h, masterData.ingredientIndex, masterData.ingredientValues,
                   IngredientMinScore, IngredientOkScore)

\* ------------------------------------------------------------------------
\* parser.ts
\* ------------------------------------------------------------------------
\* A number is the exact fraction num/den in lowest terms (den > 0).
RECURSIVE Gcd(_, _)
Gcd(a, b) == IF b = 0 THEN a ELSE Gcd(b, a % b)

Number(n, d) == LET g == Gcd(n, d) IN [num |-> n \div g, den |-> d \div g]

DigitValue(c) == CHOOSE v \in 0..9 : <<"0", "1", "2", "3", "4", "5", "6", "7", "8", "9">>[v + 1] = c

RECURSIVE DigitsValue(_)
\* Number.parseFloat of a string of digits
DigitsValue(s) ==
  IF s = <<>> THEN 0
  ELSE 10 * DigitsValue(SubSeq(s, 1, Len(s) - 1)) + DigitValue(s[Len(s)])

RECURSIVE Pow10(_)
Pow10(n) == IF n = 0 THEN 1 ELSE 10 * Pow10(n - 1)

VulgarFraction == {"½", "¼", "¾"}

\* the table with the quarters the wrong way round
FRACTION_MAP_QuartersSwapped ==
  "½" :> Number(1, 2) @@ "¼" :> Number(3, 4) @@ "¾" :> Number(1, 4)

FRACTION_MAP ==
  "½" :> Number(1, 2) @@ "¼" :> Number(1, 4) @@ "¾" :> Number(3, 4)

\* /^\d+\/\d+$/, /^\d+[.,]\d+$/, /^\d+\s*-\s*\d+$/ : digits, an infix that
\* is one character of sep (with white space around it if spaced), digits
InfixNumber(t, sep, spaced) ==
  LET d1 == RunIn(t, 0, Digit)
      w1 == IF spaced THEN RunIn(t, d1, Ws) ELSE 0
      at == d1 + w1
      w2 == IF spaced THEN RunIn(t, at + 1, Ws) ELSE 0
      d2 == RunIn(t, at + 1 + w2, Digit)
  IN  /\ d1 > 0
      /\ at < Len(t)
      /\ t[at + 1] \in sep
      /\ d2 > 0
      /\ at + 1 + w2 + d2 = Len(t)

\* /^\d+(?:\s*%?)$/
IntegerPercent(t) ==
  LET d == RunIn(t, 0, Digit)
      w == RunIn(t, d, Ws)
  IN  /\ d > 0
      /\ \/ d + w = Len(t)
         \/ d + w + 1 = Len(t) /\ t[Len(t)] = "%"

parseAmount(token) ==
  LET trimmed == trim(token)
      d1 == RunIn(trimmed, 0, Digit)
  IN  IF trimmed = <<>> THEN [value |-> None, status |-> "empty", text |-> <<>>]
      ELSE IF trimmed = <<"-">> THEN [value |-> None, status |-> "empty", text |-> <<"-">>]
      ELSE IF Len(trimmed) = 1 /\ trimmed[1] \in DOMAIN FRACTION_MAP
      THEN [value |-> Some(FRACTION_MAP[trimmed[1]]), status |-> "ok", text |-> trimmed]
      ELSE IF InfixNumber(trimmed, {"/"}, FALSE)
      THEN LET a == DigitsValue(slice(trimmed, 0, d1))
               b == DigitsValue(sliceFrom(trimmed, d1 + 1))
           IN  IF b = 0 THEN [value |-> None, status |-> "invalid", text |-> trimmed]
               ELSE [value |-> Some(Number(a, b)), status |-> "ok", text |-> trimmed]
      ELSE IF InfixNumber(trimmed, {".", ","}, FALSE)
      THEN LET frac == sliceFrom(trimmed, d1 + 1)
               parsed == Number(DigitsValue(slice(trimmed, 0, d1)) * Pow10(Len(frac))
                                  + DigitsValue(frac),
                                Pow10(Len(frac)))
           IN  [value |-> Some(parsed), status |-> "ok", text |-> trimmed]
      ELSE IF IntegerPercent(trimmed)
      THEN [value |-> Some(Number(DigitsValue(slice(trimmed, 0, d1)), 1)),
            status |-> IF \E i \in 1..Len(trimmed) : trimmed[i] = "%" THEN "ok" ELSE "ok",
            text |-> trimmed]
      ELSE IF InfixNumber(trimmed, {"-"}, TRUE)
      THEN [value |-> None, status |-> "ambiguous", text |-> RemoveWs(trimmed)]
      ELSE IF InfixNumber(trimmed, {"-"}, FALSE)
      THEN [value |-> None, status |-> "ambiguous", text |-> trimmed]
      ELSE IF d1 > 0 /\ d1 = Len(trimmed)
      THEN [value |-> Some(Number(DigitsValue(trimmed), 1)), status |-> "ok", text |-> trimmed]
      ELSE [value |-> None, status |-> "invalid", text |-> trimmed]

\* the hundredths of n/d cut off, not rounded
ToFixed2Truncating(n, d) == (100 * n) \div d

\* value.toFixed(2) of a fraction n/d in [0, 1], in hundredths
ToFixed2(n, d) == (200 * n + d) \div (2 * d)

\* clampConfidence of the fraction n/d; the confidence is held in hundredths
clampConfidence(n, d) ==
  IF n < 0 THEN 0
  ELSE IF n > d THEN 100
  ELSE ToFixed2(n, d)

\* value.replace(/^(?:von|vom|mit|of)\s+/i, "")
Connectors == <<<<"v", "o", "n">>, <<"v", "o", "m">>, <<"m", "i", "t">>, <<"o", "f">>>>

ConnectorEnd(value, k) ==
  LET w == Connectors[k]
      ws == RunIn(value, Len(w), Ws)
  IN  IF Len(w) <= Len(value) /\ toLowerCase(slice(value, 0, Len(w))) = w /\ ws > 0
      THEN Len(w) + ws ELSE -1

stripConnector(value) ==
  LET hits == {k \in 1..Len(Connectors) : ConnectorEnd(value, k) >= 0}
  IN  IF hits = {} THEN value
      ELSE sliceFrom(value, ConnectorEnd(value, CHOOSE k \in hits : \A j \in hits : k <= j))

extractNotes(value) ==
  LET matches == ParenMatches(value, 0)
  IN  IF matches = <<>> THEN [text |-> trim(value), notes |-> None]
      ELSE [text |-> trim(RemoveParens(value, 0)), notes |-> Some(Join(matches, <<" ">>))]

RECURSIVE DropWsBeforeComma(_, _)
\* value.replace(/\s+,/g, ",") from offset p on
DropWsBeforeComma(s, p) ==
  IF p >= Len(s) THEN <<>>
  ELSE LET w == RunIn(s, p, Ws)
       IN  IF w > 0 /\ p + w < Len(s) /\ s[p + w + 1] = ","
           THEN <<",">> \o DropWsBeforeComma(s, p + w + 1)
           ELSE IF w > 0 THEN slice(s, p, p + w) \o DropWsBeforeComma(s, p + w)
           ELSE <<s[p + 1]>> \o DropWsBeforeComma(s, p + 1)

cleanupIngredientRaw(value) ==
  trim(StripTrailing(DropWsBeforeComma(value, 0), {","}))

skipWhitespace(input, position) == position + RunIn(input, position, Ws)

\* the match of UNIT_BOUNDARY, /^(?<word>[^\s,()]+)/, at position
UnitWord(input, position) ==
  LET n == RunNotIn(input, position, Ws \cup {",", "(", ")"})
  IN  IF n = 0 THEN [match |-> None, next |-> position]
      ELSE [match |-> Some(slice(input, position, position + n)), next |-> position + n]

\* JavaScript truthiness of a string or null
Truthy(x) == x # None /\ x[1] # <<>>

\* the object findUnitCandidate returns for the text of a unit ending at
\* offset end, resolved as resolveUnit says
Candidate(text, end, resolved) ==
  [text |-> Some(text), end |-> end, status |-> resolved.status,
   resolved |-> resolved.name, suggestions |-> resolved.suggestions]

\* the second word is never looked at
SecondCandidateFirstWordOnly(firstMatch, secondMatch, h, master) ==
  Candidate(firstMatch.match[1], firstMatch.next,
            resolveUnit(firstMatch.match[1], h, master))

\* the first word did not resolve (parser.ts 225-246): the first two words
\* if they resolve together, else the first word as resolveUnit left it
SecondCandidate(firstMatch, secondMatch, h, master) ==
  LET firstWord == firstMatch.match[1]
      combined == firstWord \o <<" ">> \o secondMatch.match[1]
      combinedResolved == resolveUnit(combined, h, master)
  IN  IF secondMatch.match # None /\ Truthy(combinedResolved.name)
      THEN Candidate(combined, secondMatch.next, combinedResolved)
      ELSE Candidate(firstWord, firstMatch.next, resolveUnit(firstWord, h, master))

\* parser.ts 206-224: firstMatch is what consumePattern found at the first
\* offset that is not white space (its next is that offset if it found nothing)
FirstCandidate(input, firstMatch, h, master) ==
  LET firstWord == firstMatch.match[1]
      firstResolved == resolveUnit(firstWord, h, master)
  IN  IF firstMatch.match = None
      THEN [text |-> None, end |-> firstMatch.next, status |-> "missing",
            resolved |-> None, suggestions |-> <<>>]
      ELSE IF Truthy(firstResolved.name)
      THEN Candidate(firstWord, firstMatch.next, firstResolved)
      ELSE SecondCandidate(firstMatch,
                           UnitWord(input, skipWhitespace(input, firstMatch.next)),
                           h, master)

findUnitCandidate(input, position, h, master) ==
  FirstCandidate(input, UnitWord(input, skipWhitespace(input, position)), h, master)

AmountScore(status) ==
  IF status = "ok" THEN 10 ELSE IF status = "empty" THEN 6
  ELSE IF status = "ambiguous" THEN 4 ELSE 0

UnitScore(status) ==
  IF status = "ok" THEN 10 ELSE IF status = "fuzzy" THEN 7
  ELSE IF status = "missing" THEN 3 ELSE 2

IngredientScore(status) ==
  IF status = "ok" THEN 10 ELSE IF status = "fuzzy" THEN 7
  ELSE IF status = "missing" THEN 0 ELSE 3

\* the scores are held in tenths: the mean of three is their sum over 30
computeConfidence(statuses) ==
  clampConfidence(AmountScore(statuses.amount) + UnitScore(statuses.unit)
                    + IngredientScore(statuses.ingredient),
                  30)

\* the token with its end taken as the offset of its last character
TokenInclusiveEnd(type, start, end, text) ==
  [type |-> type, start |-> start, end |-> end - 1, text |-> text]

Token(type, start, end, text) ==
  [type |-> type, start |-> start, end |-> end, text |-> text]

\* length of the match of /^(\d{1,3})\s*%/ in s, or -1; digits of group 1
PercentMatch(s) ==
  LET d == RunIn(s, 0, Digit)
      w == RunIn(s, d, Ws)
  IN  IF d >= 1 /\ d <= 3 /\ d + w < Len(s) /\ s[d + w + 1] = "%"
      THEN [len |-> d + w + 1, digits |-> slice(s, 0, d)]
      ELSE [len |-> -1, digits |-> <<>>]

\* length of the match of /^filler\b/i in s, or -1
FillerMatch(s) ==
  LET w == <<"f", "i", "l", "l", "e", "r">>
  IN  IF /\ Len(s) >= Len(w)
         /\ toLowerCase(slice(s, 0, Len(w))) = w
         /\ (Len(s) = Len(w) \/ s[Len(w) + 1] \notin WordChar)
      THEN Len(w) ELSE -1

\* the alternatives of the amount pattern,
\* /^(?:\d+\s*-\s*\d+|\d+-\d+|\d+[.,]?\d*|\d+\/\d+|[½¼¾]|-)/,
\* each the length of its match in s or -1
AmountAlternative(s, k) ==
  LET d1 == RunIn(s, 0, Digit)
      w1 == RunIn(s, d1, Ws)
      w2 == RunIn(s, d1 + w1 + 1, Ws)
      d2 == RunIn(s, d1 + w1 + 1 + w2, Digit)
      hasSep == d1 < Len(s) /\ s[d1 + 1] \in {".", ","}
      d3 == RunIn(s, d1 + 1, Digit)
  IN  CASE k = 1 ->
             IF d1 > 0 /\ d1 + w1 < Len(s) /\ s[d1 + w1 + 1] = "-" /\ d2 > 0
             THEN d1 + w1 + 1 + w2 + d2 ELSE -1
        [] k = 2 ->
             IF d1 > 0 /\ d1 < Len(s) /\ s[d1 + 1] = "-" /\ d3 > 0
             THEN d1 + 1 + d3 ELSE -1
        [] k = 3 ->
             IF d1 > 0 THEN (IF hasSep THEN d1 + 1 + d3 ELSE d1) ELSE -1
        [] k = 4 ->
             IF d1 > 0 /\ d1 < Len(s) /\ s[d1 + 1] = "/" /\ d3 > 0
             THEN d1 + 1 + d3 ELSE -1
        [] k = 5 -> IF Len(s) > 0 /\ s[1] \in VulgarFraction THEN 1 ELSE -1
        [] k = 6 -> IF Len(s) > 0 /\ s[1] = "-" THEN 1 ELSE -1

\* the amount pattern with the number (its third alternative) tried before
\* the ranges
AmountMatchNumberFirst(s) ==
  LET hits == {k \in 1..6 : AmountAlternative(s, k) >= 0}
  IN  IF hits = {} THEN -1
      ELSE IF 3 \in hits THEN AmountAlternative(s, 3)
      ELSE AmountAlternative(s, CHOOSE k \in hits : \A j \in hits : k <= j)

\* the amount pattern without its last alternative, the dash
AmountMatchNoDash(s) ==
  LET hits == {k \in 1..5 : AmountAlternative(s, k) >= 0}
  IN  IF hits = {} THEN -1
      ELSE AmountAlternative(s, CHOOSE k \in hits : \A j \in hits : k <= j)

\* the alternatives are tried in the order written; the first that matches
\* is the match
AmountMatch(s) ==
  LET hits == {k \in 1..6 : AmountAlternative(s, k) >= 0}
  IN  IF hits = {} THEN -1
      ELSE AmountAlternative(s, CHOOSE k \in hits : \A j \in hits : k <= j)

\* the blank-line result with the amount status taken from the statuses of
\* the other two fields
BlankResultAmountMissing(raw) ==
  [raw |-> raw, amount |-> None, amountText |-> None, unit |-> None, unitRaw |-> None,
   ingredient |-> None, ingredientRaw |-> None, notes |-> None, confidence |-> 0,
   statuses |-> [amount |-> "missing", unit |-> "missing", ingredient |-> "missing"],
   suggestions |-> [units |-> <<>>, ingredients |-> <<>>],
   tokens |-> <<>>]

\* the result of parseIngredientLine for a blank line
BlankResult(raw) ==
  [raw |-> raw, amount |-> None, amountText |-> None, unit |-> None, unitRaw |-> None,
   ingredient |-> None, ingredientRaw |-> None, notes |-> None, confidence |-> 0,
   statuses |-> [amount |-> "empty", unit |-> "missing", ingredient |-> "missing"],
   suggestions |-> [units |-> <<>>, ingredients |-> <<>>],
   tokens |-> <<>>]

\* the local variables of parseIngredientLine as declared (parser.ts
\* 259-302), position past the leading white space
Locals(position) ==
  [position |-> position, tokens |-> <<>>,
   amount |-> None, amountText |-> None, amountStatus |-> "empty",
   unit |-> None, unitRaw |-> None, unitStatus |-> "missing", unitSuggestions |-> <<>>,
   ingredient |-> None, ingredientRaw |-> None, ingredientStatus |-> "missing",
   ingredientSuggestions |-> <<>>, notes |-> None]

\* parser.ts 305-312: the percentage is the amount
PercentStage(raw, st, percentMatch) ==
  LET end == st.position + percentMatch.len
  IN  [st EXCEPT
         !.amountText = Some(RemoveWs(trim(slice(raw, st.position, end)))),
         !.amount = Some(Number(DigitsValue(percentMatch.digits), 1)),
         !.amountStatus = "ok",
         !.tokens = Append(@, Token("amount", st.position, end,
                                    slice(raw, st.position, end))),
         !.position = skipWhitespace(raw, end)]

\* parser.ts 324-348: extracted is what extractNotes made of the text after
\* the word filler, st.position the offset of that text
FillerIngredient(raw, st, extracted, h, masterData) ==
  LET text == extracted.text
      resolved == resolveIngredient(text, h, masterData)
      ingredientEnd == st.position + Len(text)
      noteStart == indexOf(raw, extracted.notes[1], ingredientEnd)
  IN  [st EXCEPT
         !.ingredientRaw = Some(text),
         !.ingredient = IF text # <<>> THEN Some(OrElse(resolved.name, text)) ELSE None,
         !.notes = extracted.notes,
         !.ingredientStatus = IF text # <<>> THEN resolved.status ELSE "missing",
         !.ingredientSuggestions = IF text # <<>> THEN resolved.suggestions ELSE <<>>,
         !.tokens =
           @ \o (IF text # <<>>
                 THEN <<Token("ingredient", st.position, ingredientEnd, text)>>
                 ELSE <<>>)
             \o (IF Truthy(extracted.notes) /\ noteStart >= 0
                 THEN <<Token("notes", noteStart, noteStart + Len(extracted.notes[1]),
                              extracted.notes[1])>>
                 ELSE <<>>)]

\* the unit is the word as the line has it
FillerStageRawUnit(raw, st, h, masterData) ==
  LET unitEnd == st.position + FillerMatch(sliceFrom(raw, st.position))
      position == skipWhitespace(raw, unitEnd)
  IN  FillerIngredient(
        raw,
        [st EXCEPT
           !.unit = Some(slice(raw, st.position, unitEnd)),
           !.unitRaw = Some(slice(raw, st.position, unitEnd)),
           !.unitStatus = "ok",
           !.tokens = Append(@, Token("unit", st.position, unitEnd,
                                      slice(raw, st.position, unitEnd))),
           !.position = position],
        extractNotes(stripConnector(trim(sliceFrom(raw, position)))),
        h, masterData)

\* parser.ts 316-326: the word filler at st.position is the unit
FillerStage(raw, st, h, masterData) ==
  LET unitEnd == st.position + FillerMatch(sliceFrom(raw, st.position))
      position == skipWhitespace(raw, unitEnd)
  IN  FillerIngredient(
        raw,
        [st EXCEPT
           !.unit = Some(<<"F", "i", "l", "l", "e", "r">>),
           !.unitRaw = Some(slice(raw, st.position, unitEnd)),
           !.unitStatus = "ok",
           !.tokens = Append(@, Token("unit", st.position, unitEnd,
                                      slice(raw, st.position, unitEnd))),
           !.position = position],
        extractNotes(stripConnector(trim(sliceFrom(raw, position)))),
        h, masterData)

\* parser.ts 350-372: the object the percent-filler path returns
FillerParsed(raw, st) ==
  [raw |-> raw,
   amount |-> st.amount,
   amountText |-> st.amountText,
   unit |-> st.unit,
   unitRaw |-> st.unitRaw,
   ingredient |-> st.ingredient,
   ingredientRaw |-> st.ingredientRaw,
   notes |-> st.notes,
   confidence |-> computeConfidence([amount |-> st.amountStatus, unit |-> st.unitStatus,
                                     ingredient |-> st.ingredientStatus]),
   statuses |-> [amount |-> st.amountStatus, unit |-> st.unitStatus,
                 ingredient |-> st.ingredientStatus],
   suggestions |-> [units |-> st.unitSuggestions,
                    ingredients |-> st.ingredientSuggestions],
   tokens |-> st.tokens]

\* the percent-filler path (parser.ts 315-373) from the locals st the
\* percent stage left
FillerResult(raw, st, h, masterData) ==
  FillerParsed(raw, FillerStage(raw, st, h, masterData))

\* parser.ts 380-388: parsed is what parseAmount made of raw[start, end)
AmountParsed(raw, st, start, end, parsed) ==
  [st EXCEPT
     !.amount = parsed.value,
     !.amountText = Some(parsed.text),
     !.amountStatus = parsed.status,
     !.tokens = Append(@, Token("amount", start, end, slice(raw, start, end))),
     !.position = skipWhitespace(raw, end)]

\* parser.ts 376-389
AmountStage(raw, st) ==
  LET position == skipWhitespace(raw, st.position)
      matched == AmountMatch(sliceFrom(raw, position))
  IN  IF matched >= 0
      THEN AmountParsed(raw, st, position, position + matched,
                        parseAmount(slice(raw, position, position + matched)))
      ELSE [st EXCEPT !.position = position]

\* the unit is the word as written, whatever it resolved to
UnitFoundRaw(raw, st, unitCandidate) ==
  IF Truthy(unitCandidate.text)
  THEN [st EXCEPT
          !.unitRaw = Some(slice(raw, st.position, unitCandidate.end)),
          !.unit = unitCandidate.text,
          !.unitStatus = unitCandidate.status,
          !.unitSuggestions = unitCandidate.suggestions,
          !.tokens = Append(@, Token("unit", st.position, unitCandidate.end,
                                     slice(raw, st.position, unitCandidate.end))),
          !.position = unitCandidate.end]
  ELSE st

\* parser.ts 393-402: st.position is the offset findUnitCandidate started at
UnitFound(raw, st, unitCandidate) ==
  IF Truthy(unitCandidate.text)
  THEN [st EXCEPT
          !.unitRaw = Some(slice(raw, st.position, unitCandidate.end)),
          !.unit = Some(IF unitCandidate.resolved # None THEN unitCandidate.resolved[1]
                        ELSE IF normaliseText(unitCandidate.text[1]) # <<>>
                        THEN normaliseText(unitCandidate.text[1])
                        ELSE unitCandidate.text[1]),
          !.unitStatus = unitCandidate.status,
          !.unitSuggestions = unitCandidate.suggestions,
          !.tokens = Append(@, Token("unit", st.position, unitCandidate.end,
                                     slice(raw, st.position, unitCandidate.end))),
          !.position = unitCandidate.end]
  ELSE st

\* parser.ts 391-402
UnitStage(raw, st, h, masterData) ==
  LET position == skipWhitespace(raw, st.position)
  IN  UnitFound(raw, [st EXCEPT !.position = position],
                findUnitCandidate(raw, position, h, masterData))

\* parser.ts 408-427: extracted is what extractNotes made of the rest of the
\* line, st.position the offset of that rest
IngredientFound(raw, st, extracted, h, masterData) ==
  LET ingredientText == extracted.text
      resolved == resolveIngredient(ingredientText, h, masterData)
      noteIndex == indexOf(raw, extracted.notes[1], st.position)
  IN  [st EXCEPT
         !.ingredientRaw = Some(ingredientText),
         !.notes = extracted.notes,
         !.ingredient =
           IF ingredientText # <<>> THEN Some(OrElse(resolved.name, ingredientText))
           ELSE None,
         !.ingredientStatus = IF ingredientText # <<>> THEN resolved.status ELSE "missing",
         !.ingredientSuggestions =
           IF ingredientText # <<>> THEN resolved.suggestions ELSE <<>>,
         !.tokens =
           @ \o (IF ingredientText # <<>>
                 THEN <<Token("ingredient", st.position,
                              st.position + Len(ingredientText), ingredientText)>>
                 ELSE <<>>)
             \o (IF Truthy(extracted.notes) /\ noteIndex >= 0
                 THEN <<Token("notes", noteIndex, noteIndex + Len(extracted.notes[1]),
                              extracted.notes[1])>>
                 ELSE <<>>)]

\* parser.ts 404-427
IngredientStage(raw, st, h, masterData) ==
  LET position == skipWhitespace(raw, st.position)
  IN  IngredientFound(
        raw, [st EXCEPT !.position = position],
        extractNotes(stripConnector(cleanupIngredientRaw(sliceFrom(raw, position)))),
        h, masterData)

\* parser.ts 429-431
FillerFallback(st) ==
  IF /\ Truthy(st.unit)
     /\ toLowerCase(st.unit[1]) = <<"f", "i", "l", "l", "e", "r">>
     /\ ~Truthy(st.ingredient)
  THEN [st EXCEPT !.ingredient = st.ingredientRaw]
  ELSE st

\* parser.ts 433-455: the object the generic path returns
Parsed(raw, st) ==
  [raw |-> raw,
   amount |-> IF st.amountStatus = "ok" THEN st.amount ELSE None,
   amountText |-> st.amountText,
   unit |-> st.unit,
   unitRaw |-> st.unitRaw,
   ingredient |-> st.ingredient,
   ingredientRaw |-> st.ingredientRaw,
   notes |-> st.notes,
   confidence |-> computeConfidence([amount |-> st.amountStatus, unit |-> st.unitStatus,
                                     ingredient |-> st.ingredientStatus]),
   statuses |-> [amount |-> st.amountStatus, unit |-> st.unitStatus,
                 ingredient |-> st.ingredientStatus],
   suggestions |-> [units |-> st.unitSuggestions,
                    ingredients |-> st.ingredientSuggestions],
   tokens |-> st.tokens]

\* the generic stages (parser.ts 376-455) from the locals st the percent
\* stage left
GenericResult(raw, st, h, masterData) ==
  Parsed(raw,
         FillerFallback(
           IngredientStage(raw, UnitStage(raw, AmountStage(raw, st), h, masterData),
                           h, masterData)))

\* parser.ts 312-374: after a percentage, the word filler decides the path
AfterPercent(raw, st, h, masterData) ==
  IF FillerMatch(sliceFrom(raw, st.position)) >= 0
  THEN FillerResult(raw, st, h, masterData)
  ELSE GenericResult(raw, st, h, masterData)

\* parser.ts 290-456 for a line that is not blank: percentMatch is the match
\* of the percent pattern at position
NonBlankResult(raw, position, percentMatch, h, masterData) ==
  IF percentMatch.len >= 0
  THEN AfterPercent(raw, PercentStage(raw, Locals(position), percentMatch), h,
                    masterData)
  ELSE GenericResult(raw, Locals(position), h, masterData)

parseIngredientLine(line, h, masterData) ==
  LET position == skipWhitespace(line, 0)
  IN  IF trim(sliceFrom(line, position)) = <<>> THEN BlankResult(line)
      ELSE NonBlankResult(line, position, PercentMatch(sliceFrom(line, position)), h,
                          masterData)

\* ------------------------------------------------------------------------
\* parser.ts: the segmenter
\* ------------------------------------------------------------------------
\* value[index] of a string and a 0-based index: None stands for undefined
CharAt(value, index) ==
  IF index >= 0 /\ index < Len(value) THEN Some(value[index + 1]) ELSE None

\* no comma is a decimal comma
isDecimalCommaNever(value, index) == FALSE

\* Boolean(previous && next && /\d/.test(previous) && /\d/.test(next) &&
\* next !== " "): a character is a truthy string, undefined is not
isDecimalComma(value, index) ==
  LET previous == CharAt(value, index - 1)
      next == CharAt(value, index + 1)
  IN  /\ previous # None
      /\ next # None
      /\ previous[1] \in Digit
      /\ next[1] \in Digit
      /\ next[1] # " "

\* the segment is appended as it is, white space at its ends included
pushSegmentUntrimmed(value, segments, rawStart, rawEnd) ==
  IF rawEnd <= rawStart THEN segments
  ELSE Append(segments,
              [text |-> slice(value, rawStart, rawEnd),
               start |-> rawStart, end |-> rawEnd])

\* pushSegment (parser.ts 136-151): value[rawStart, rawEnd) without the
\* white space at its ends is appended, unless nothing is left
pushSegment(value, segments, rawStart, rawEnd) ==
  LET segmentStart == rawStart + RunIn(slice(value, rawStart, rawEnd), 0, Ws)
      segmentEnd == rawEnd - RunInBack(slice(value, segmentStart, rawEnd), rawEnd - segmentStart, Ws)
  IN  IF segmentEnd <= segmentStart THEN segments
      ELSE Append(segments,
                  [text |-> slice(value, segmentStart, segmentEnd),
                   start |-> segmentStart, end |-> segmentEnd])

\* parentheses are not counted
DepthAfterFlat(depth, char) == depth

\* the depth of parentheses after the character char (parser.ts 158-162)
DepthAfter(depth, char) ==
  IF char = "(" THEN depth + 1
  ELSE IF char = ")" /\ depth > 0 THEN depth - 1
  ELSE depth

\* one pass of the loop (parser.ts 153-178): st is [segments, start, depth],
\* start None while no segment is open
SplitStep(value, st, index) ==
  LET char == IF index < Len(value) THEN value[index + 1] ELSE "\n"
      isLineBreak == char = "\n" \/ char = "\r" \/ index = Len(value)
      isComma == char = ","
      depth == DepthAfter(st.depth, char)
  IN  IF st.start = None
      THEN IF /\ ~isLineBreak
              /\ (~isComma \/ isDecimalComma(value, index))
              /\ char \notin Ws
           THEN [st EXCEPT !.start = Some(index), !.depth = depth]
           ELSE [st EXCEPT !.depth = depth]
      ELSE IF isLineBreak \/ (isComma /\ ~isDecimalComma(value, index) /\ depth = 0)
           THEN [segments |-> pushSegment(value, st.segments, st.start[1], index),
                 start |-> None, depth |-> 0]
           ELSE [st EXCEPT !.depth = depth]

RECURSIVE SplitLoop(_, _, _)
\* for (let index = 0; index <= length; index += 1)
SplitLoop(value, st, index) ==
  IF index > Len(value) THEN st
  ELSE LET next == SplitStep(value, st, index)
       IN  IF Evaluated(next) THEN SplitLoop(value, next, index + 1) ELSE next

splitIngredientTuples(value) ==
  SplitLoop(value, [segments |-> <<>>, start |-> None, depth |-> 0], 0).segments

\* ------------------------------------------------------------------------
\* The system: the module state of master-data.ts (the heap of records and
\* the cache), the MasterData objects callers hold, and the last call
\* ------------------------------------------------------------------------
VARIABLES
  heap,         \* the MasterRecord objects, by identity
  cachedKey,    \* master-data.ts: let cachedKey
  cachedData,   \* master-data.ts: let cachedData (None is null)
  cachedCorpus, \* history: the corpus of the call that last wrote the cache
  snapshots,    \* history: every MasterData returned, with its content then
  builds,       \* number of buildMasterData calls so far
  call,         \* the call that has returned: its arguments and its result
  editor        \* IngredientInput: its props, state, effect and timers

vars == <<heap, cachedKey, cachedData, cachedCorpus, snapshots, builds, call, editor>>

\* IngredientInput before it is mounted and after it is unmounted: value
\* is the prop, master the place in snapshots of the MasterData of useMemo,
\* segments the segments of useMemo, parsed the state, handle the timer of
\* the effect that last ran, timers the timers that are pending, published
\* what onParsedChange was last called with, calls the number of its calls
\* since the text or the MasterData last changed, edits the number of
\* these changes
Unmounted ==
  [mounted |-> FALSE, value |-> <<>>, master |-> 0, segments |-> <<>>,
   parsed |-> <<>>, handle |-> 0, timers |-> {}, published |-> None,
   calls |-> 0, edits |-> 0]

\* the content of a MasterData: every record identity replaced by the
\* fields of the record
DeepMaster(h, md) ==
  [units |-> [i \in 1..Len(md.units) |-> h[md.units[i]]],
   ingredients |-> [i \in 1..Len(md.ingredients) |-> h[md.ingredients[i]]],
   unitIndex |-> [i \in 1..Len(md.unitIndex) |->
                    [key |-> md.unitIndex[i].key, val |-> h[md.unitIndex[i].val]]],
   ingredientIndex |-> [i \in 1..Len(md.ingredientIndex) |->
                          [key |-> md.ingredientIndex[i].key,
                           val |-> h[md.ingredientIndex[i].val]]],
   unitValues |-> md.unitValues,
   ingredientValues |-> md.ingredientValues]

\* ---- inputs ----
\* number of buildMasterData calls in a run
MaxBuilds == 3

\* number of pieces a line is made of
MaxPieces == 2

\* the editor builds the master data when it is mounted: at most this often
MaxMounts == 1

\* the corpus of parser.test.ts
TestCorpus ==
  <<[Cocktail |-> <<"T", "e", "s", "t">>,
     Rezeptur |-> <<"2", " ", "c", "l", " ", "B", "a", "c", "a", "r", "d", "i", ",", " ",
                    "1", " ", "D", "a", "s", "h", " ", "A", "n", "g", "o", "s", "t", "u",
                    "r", "a", ",", " ", "F", "i", "l", "l", "e", "r", " ", "M", "a", "r",
                    "a", "c", "u", "j", "a", ",", " ", "-", " ", "h", "a", "n", "d", "v",
                    "o", "l", "l", " ", "M", "i", "n", "z", "e">>]>>

\* the corpora the editor is mounted with
EditorCorpora == {<<>>, TestCorpus}

\* corpora of at most one recipe: two of the same name and different
\* ingredients, two of the same ingredients and different names
Corpora ==
  {<<>>,
   <<[Cocktail |-> <<"T", "e", "s", "t">>,
      Rezeptur |-> <<"2", " ", "c", "l", " ", "G", "i", "n">>]>>,
   <<[Cocktail |-> <<"T", "e", "s", "t">>,
      Rezeptur |-> <<"4", " ", "c", "l", " ", "G", "i", "n", " ", "(", "d", "r", "y", ")",
                     ",", " ", "2", " ", "c", "l", " ", "M", "i", "n", "t">>]>>,
   <<[Cocktail |-> <<"M", "o", "j", "i", "t", "o">>,
      Rezeptur |-> <<"2", " ", "c", "l", " ", "G", "i", "n">>]>>}

\* the pieces lines are made of: amounts, a fraction with its unit, a
\* percentage, a percentage of filler, units, ingredient text, a note, a
\* connector, punctuation
Pieces ==
  {<<"2", " ">>,
   <<"1", "/", "2", " ", "c", "l", " ">>,
   <<"1", " ", "-", " ", "2", " ">>,
   <<"½">>,
   <<"-", " ">>,
   <<"5", "0", " ", "%", " ">>,
   <<"5", "0", "%", " ", "f", "i", "l", "l", "e", "r", " ">>,
   <<"c", "l", " ">>,
   <<"F", "i", "l", "l", "e", "r", " ">>,
   <<"b", "a", "r", " ", "s", "p", "o", "o", "n", " ">>,
   <<".", " ">>,
   <<"R", "u", "m">>,
   <<"(", "x", ")", " ">>,
   <<"v", "o", "n", " ">>,
   <<"M", "i", "n", "t", ",">>}

RECURSIVE LinesOf(_)
\* the lines of at most n pieces
LinesOf(n) ==
  IF n = 0 THEN {<<>>}
  ELSE LET shorter == LinesOf(n - 1)
       IN  shorter \cup {l \o p : l \in shorter, p \in Pieces}

\* the lines the editor parses: those made of pieces, and white space only
Lines == LinesOf(MaxPieces) \cup {<<" ", "\t">>}

\* the lines parsed between builds
CacheLines == {<<"2", " ", "c", "l", " ", "G", "i", "n">>, <<"M", "i", "n", "t">>}

\* ---- behaviour ----
Init ==
  /\ heap = BaseHeap
  /\ cachedKey = <<>>
  /\ cachedData = None
  /\ cachedCorpus = None
  /\ snapshots = <<>>
  /\ builds = 0
  /\ call = [op |-> "init"]
  /\ editor = Unmounted

\* no call is under way: the caller of the last one has taken its result
Idle == call.op \in {"init", "idle"}

\* a caller calls buildMasterData(cocktails) and keeps what it returns
Build(corpora, maxCalls) ==
  /\ Idle
  /\ builds < maxCalls
  /\ \E cocktails \in corpora :
       \E r \in {buildMasterData(
                   [heap |-> heap, cachedKey |-> cachedKey, cachedData |-> cachedData],
                   cocktails)} :
         /\ heap' = r.heap
         /\ cachedKey' = r.cachedKey
         /\ cachedData' = r.cachedData
         /\ cachedCorpus' =
              IF r.cachedKey # cachedKey \/ r.cachedData # cachedData
              THEN Some(cocktails) ELSE cachedCorpus
         /\ snapshots' =
              IF \E k \in 1..Len(snapshots) : snapshots[k].master = r.result
              THEN snapshots
              ELSE Append(snapshots,
                          [master |-> r.result, deep |-> DeepMaster(r.heap, r.result)])
         /\ builds' = builds + 1
         /\ call' = [op |-> "build", cocktails |-> cocktails, result |-> r.result]
  /\ UNCHANGED editor

\* a caller parses a line against a MasterData it holds
Parse(lines) ==
  /\ Idle
  /\ \E line \in lines, k \in 1..Len(snapshots) :
       call' = [op |-> "parse", line |-> line, master |-> snapshots[k].master,
                result |-> parseIngredientLine(line, heap, snapshots[k].master)]
  /\ UNCHANGED <<heap, cachedKey, cachedData, cachedCorpus, snapshots, builds, editor>>

\* the caller takes the result of the call
Return ==
  /\ ~Idle
  /\ call' = [op |-> "idle"]
  /\ UNCHANGED <<heap, cachedKey, cachedData, cachedCorpus, snapshots, builds, editor>>

\* the editor: the vocabulary is built when the input mounts, then lines
\* are parsed
\* a text is normalised (buildIndex, Resolve and similarity do it)
Normalise(values) ==
  /\ Idle
  /\ \E value \in values :
       call' = [op |-> "normalise", value |-> value, result |-> normaliseText(value)]
  /\ UNCHANGED <<heap, cachedKey, cachedData, cachedCorpus, snapshots, builds, editor>>

\* two texts are compared, in both orders and each with itself (suggest
\* compares the query with every known value)
Similarity(values) ==
  /\ Idle
  /\ \E a \in values, b \in values :
       call' = [op |-> "similarity", a |-> a, b |-> b,
                ab |-> similarity(a, b), ba |-> similarity(b, a),
                aa |-> similarity(a, a)]
  /\ UNCHANGED <<heap, cachedKey, cachedData, cachedCorpus, snapshots, builds, editor>>

\* a token is resolved as a unit or as an ingredient against a MasterData
\* the caller holds (findUnitCandidate and parseIngredientLine do it)
ResolveToken(raws) ==
  /\ Idle
  /\ \E raw \in raws, field \in {"unit", "ingredient"}, k \in 1..Len(snapshots) :
       call' = [op |-> "resolve", field |-> field, raw |-> raw,
                master |-> snapshots[k].master,
                result |-> IF field = "unit"
                           THEN resolveUnit(raw, heap, snapshots[k].master)
                           ELSE resolveIngredient(raw, heap, snapshots[k].master)]
  /\ UNCHANGED <<heap, cachedKey, cachedData, cachedCorpus, snapshots, builds, editor>>

\* the editor splits the text of its field into segments
\* (IngredientInput.tsx 49)
Split(values) ==
  /\ Idle
  /\ \E value \in values :
       call' = [op |-> "split", value |-> value,
                result |-> splitIngredientTuples(value)]
  /\ UNCHANGED <<heap, cachedKey, cachedData, cachedCorpus, snapshots, builds, editor>>

\* segments.map((segment) => parseIngredientLine(segment.text, masterData))
ParseSegments(segments, h, masterData) ==
  [i \in 1..Len(segments) |-> parseIngredientLine(segments[i].text, h, masterData)]

\* no timer is ever cleared
clearTimeoutNever(timers, handle) == timers

\* window.clearTimeout(handle): the timer of that handle, if it is pending
clearTimeout(timers, handle) == {t \in timers : t.handle # handle}

\* the effect (IngredientInput.tsx 59-67) runs again because segments or
\* masterData changed: the cleanup of its last run, then window.setTimeout
\* with a callback that holds the segments and the MasterData of this render
RunEffect(e, value, master) ==
  [e EXCEPT
     !.value = value,
     !.master = master,
     !.segments = splitIngredientTuples(value),
     !.handle = e.edits + 1,
     !.timers = clearTimeout(e.timers, e.handle)
                  \cup {[handle |-> e.edits + 1,
                          segments |-> splitIngredientTuples(value),
                          master |-> master]},
     !.calls = 0,
     !.edits = e.edits + 1]

\* the form mounts the editor with a text, in a context whose MasterData
\* has been built: the state parsed starts as the parse of the segments
\* (52-54) and the effect runs for the first time
Mount(values) ==
  /\ ~editor.mounted
  /\ editor.edits = 0
  /\ \E value \in values, k \in 1..Len(snapshots) :
       editor' = [RunEffect(Unmounted, value, k) EXCEPT
                    !.mounted = TRUE,
                    !.parsed = ParseSegments(splitIngredientTuples(value), heap,
                                             snapshots[k].master)]
  /\ UNCHANGED <<heap, cachedKey, cachedData, cachedCorpus, snapshots, builds, call>>

\* the user edits the text: the form passes a new value
Edit(values, maxEdits) ==
  /\ editor.mounted
  /\ editor.edits < maxEdits
  /\ \E value \in values \ {editor.value} :
       editor' = RunEffect(editor, value, editor.master)
  /\ UNCHANGED <<heap, cachedKey, cachedData, cachedCorpus, snapshots, builds, call>>

\* the context has other cocktails: useMemo builds another MasterData
CorpusChange(maxEdits) ==
  /\ editor.mounted
  /\ editor.edits < maxEdits
  /\ \E k \in (1..Len(snapshots)) \ {editor.master} :
       editor' = RunEffect(editor, editor.value, k)
  /\ UNCHANGED <<heap, cachedKey, cachedData, cachedCorpus, snapshots, builds, call>>

\* a pending timer fires (60-64): its callback parses the segments it
\* holds, sets the state and calls onParsedChange
Fire ==
  /\ \E t \in editor.timers :
       editor' = [editor EXCEPT
                    !.timers = @ \ {t},
                    !.parsed = ParseSegments(t.segments, heap, snapshots[t.master].master),
                    !.published = Some(ParseSegments(t.segments, heap,
                                                     snapshots[t.master].master)),
                    !.calls = @ + 1]
  /\ UNCHANGED <<heap, cachedKey, cachedData, cachedCorpus, snapshots, builds, call>>

\* the form unmounts the editor: the cleanup of the effect (66)
Unmount ==
  /\ editor.mounted
  /\ editor' = [editor EXCEPT !.mounted = FALSE,
                               !.timers = clearTimeout(@, editor.handle)]
  /\ UNCHANGED <<heap, cachedKey, cachedData, cachedCorpus, snapshots, builds, call>>

Next == Build(EditorCorpora, MaxMounts) \/ Parse(Lines) \/ Return

Spec == Init /\ [][Next]_vars

\* the cache: callers build for changing corpora and parse in between
NextCache == Build(Corpora, MaxBuilds) \/ Parse(CacheLines) \/ Return

SpecCache == Init /\ [][NextCache]_vars

\* ------------------------------------------------------------------------
\* Properties of the parser (checked under Spec)
\* ------------------------------------------------------------------------
AmountStatuses == {"ok", "empty", "ambiguous", "invalid"}

FieldStatuses == {"ok", "fuzzy", "new", "missing"}

\* the fields of a ParsedIngredient (types.ts)
ParsedFields ==
  {"raw", "amount", "amountText", "unit", "unitRaw", "ingredient", "ingredientRaw",
   "notes", "confidence", "statuses", "suggestions", "tokens"}

\* null or one value
IsOptional(x) == x = None \/ (DOMAIN x = {1})

WellFormed(r) ==
  /\ DOMAIN r = ParsedFields
  /\ DOMAIN r.statuses = {"amount", "unit", "ingredient"}
  /\ r.statuses.amount \in AmountStatuses
  /\ r.statuses.unit \in FieldStatuses
  /\ r.statuses.ingredient \in FieldStatuses
  /\ \A f \in {"amount", "amountText", "unit", "unitRaw", "ingredient", "ingredientRaw",
               "notes"} : IsOptional(r[f])
  /\ r.amount # None => DOMAIN r.amount[1] = {"num", "den"} /\ r.amount[1].den > 0
  /\ r.confidence \in Int
  /\ DOMAIN r.suggestions = {"units", "ingredients"}
  /\ DOMAIN r.tokens = 1..Len(r.tokens)
  /\ \A i \in 1..Len(r.tokens) : DOMAIN r.tokens[i] = {"type", "start", "end", "text"}

\* C1: parseIngredientLine returns, for every line (the empty line and a
\* line of white space included) and every MasterData that buildMasterData
\* built, a ParsedIngredient of the line: the amount status is one of ok,
\* empty, ambiguous, invalid, the unit and the ingredient status one of ok,
\* fuzzy, new, missing, and every other field is there, a value or null.
C1_Total ==
  call.op = "parse" => call.result.raw = call.line /\ WellFormed(call.result)

\* a line of white space only was parsed
C1_Witness ==
  /\ call.op = "parse"
  /\ call.line = <<" ", "\t">>
  /\ call.result.tokens = <<>>
  /\ call.result.statuses.amount = "empty"

\* [t1.start, t1.end) and [t2.start, t2.end) have no offset in common
Disjoint(t1, t2) == t1.end <= t2.start \/ t2.end <= t1.start

\* C2: the tokens of one parse result do not overlap pairwise, notes before
\* the name of the ingredient included.
C2_TokensDisjoint ==
  call.op = "parse" =>
    \A i, j \in 1..Len(call.result.tokens) :
      i < j => Disjoint(call.result.tokens[i], call.result.tokens[j])

\* C3: the tokens of a parse result are in non-decreasing order of start,
\* and each has 0 <= start < end <= raw.length.
C3_TokensOrdered ==
  call.op = "parse" =>
    /\ \A i \in 1..Len(call.result.tokens) :
         /\ 0 <= call.result.tokens[i].start
         /\ call.result.tokens[i].start < call.result.tokens[i].end
         /\ call.result.tokens[i].end <= Len(call.result.raw)
    /\ \A i \in 1..(Len(call.result.tokens) - 1) :
         call.result.tokens[i].start <= call.result.tokens[i + 1].start

\* a line with an amount, a unit, an ingredient and a note after it was
\* parsed
C3_Witness ==
  /\ call.op = "parse"
  /\ Len(call.result.tokens) = 4
  /\ call.result.tokens[1].type = "amount"
  /\ call.result.tokens[4].type = "notes"
  /\ call.result.tokens[4].start > call.result.tokens[3].start

\* C4: the confidence of a parse result is determined by its three statuses:
\* it is the confidence of the result for the blank line whenever the two
\* have the same statuses.
C4_ConfidenceByStatuses ==
  call.op = "parse" =>
    \A blank \in {parseIngredientLine(<<>>, heap, call.master)} :
      blank.statuses = call.result.statuses =>
        blank.confidence = call.result.confidence

\* the per-field scores as the specification lists them, in hundredths
AmountTable == [ok |-> 100, empty |-> 60, ambiguous |-> 40, invalid |-> 0]

UnitTable == [ok |-> 100, fuzzy |-> 70, missing |-> 30, new |-> 20]

IngredientTable == [ok |-> 100, fuzzy |-> 70, missing |-> 0, new |-> 30]

\* the mean total/3 of three scores rounded to hundredths: the q no more
\* than half a hundredth from it
NearestToMean(total) ==
  CHOOSE q \in 0..100 : 6 * q - 2 * total <= 3 /\ 2 * total - 6 * q <= 3

\* C5: for each of the 4 x 4 x 4 triples of statuses the confidence is the
\* mean of the three scores of the table rounded to two decimals, and the
\* confidence of every parse result is in [0, 1].
C5_Confidence ==
  /\ \A a \in AmountStatuses, u \in FieldStatuses, i \in FieldStatuses :
       computeConfidence([amount |-> a, unit |-> u, ingredient |-> i])
         = NearestToMean(AmountTable[a] + UnitTable[u] + IngredientTable[i])
  /\ call.op = "parse" => call.result.confidence \in 0..100

\* a result whose mean of scores, 1.6 / 3, is not a number of hundredths
C5_Witness ==
  /\ call.op = "parse"
  /\ call.result.statuses = [amount |-> "empty", unit |-> "ok", ingredient |-> "missing"]
  /\ call.result.confidence = 53

\* C6: a unit or an ingredient whose status is missing is null.
C6_MissingIsNull ==
  call.op = "parse" =>
    /\ call.result.statuses.unit = "missing" => call.result.unit = None
    /\ call.result.statuses.ingredient = "missing" => call.result.ingredient = None

\* end offset of the simple fraction (digits, slash, digits, then white
\* space) a line begins with, or -1
FractionEnd(line) ==
  LET a == RunIn(line, 0, Digit)
      b == RunIn(line, a + 1, Digit)
  IN  IF /\ a > 0 /\ a < Len(line) /\ line[a + 1] = "/" /\ b > 0
         /\ a + 1 + b < Len(line) /\ line[a + 2 + b] \in Ws
      THEN a + 1 + b ELSE -1

\* the amount and the amount status the fraction a/b is to have
FractionAmount(a, b) ==
  IF b = 0 THEN [amount |-> None, status |-> "invalid"]
  ELSE [amount |-> Some(Number(a, b)), status |-> "ok"]

\* C10: a line that begins with a simple fraction a/b has the whole a/b as
\* its amount token, the amount a/b with status ok if b is not zero, and no
\* amount with status invalid if b is zero.
C10_FractionAmount ==
  call.op = "parse" /\ FractionEnd(call.line) >= 0 =>
    \A e \in {FractionEnd(call.line)}, a \in {RunIn(call.line, 0, Digit)} :
      /\ call.result.tokens # <<>>
      /\ call.result.tokens[1] = Token("amount", 0, e, slice(call.line, 0, e))
      /\ [amount |-> call.result.amount, status |-> call.result.statuses.amount]
           = FractionAmount(DigitsValue(slice(call.line, 0, a)),
                            DigitsValue(slice(call.line, a + 1, e)))

\* ------------------------------------------------------------------------
\* Properties of the MasterData cache (checked under SpecCache)
\* ------------------------------------------------------------------------
\* the content of the MasterData a build from scratch makes of a corpus
FreshContent(cocktails) ==
  \* the heap of the build holds the records the MasterData refers to
  CHOOSE content \in {DeepMaster(built.heap, built.master) :
                        built \in {NewMasterData(BaseHeap, cocktails)}} : TRUE

\* C7: buildMasterData is memoized by the content of the corpus: every call
\* returns a MasterData equal to the one a build from scratch makes of the
\* corpus of the call.
C7_MemoizedByContent ==
  call.op = "build" => DeepMaster(heap, call.result) = FreshContent(call.cocktails)

\* C8: the cached key and the cached MasterData belong together whenever a
\* caller can read them: the cache is empty with the empty key, or it holds
\* the complete MasterData of the corpus its key was derived from.
C8_CacheAtomic ==
  IF cachedData = None
  THEN cachedKey = <<>> /\ cachedCorpus = None
  ELSE /\ cachedCorpus # None
       /\ cachedKey = CacheKey(cachedCorpus[1])
       /\ DeepMaster(heap, cachedData[1]) = FreshContent(cachedCorpus[1])

\* a build has replaced the MasterData an earlier build had cached
C8_Witness ==
  /\ call.op = "build"
  /\ Len(snapshots) >= 2
  /\ cachedData = Some(call.result)
  /\ cachedData # Some(snapshots[1].master)

\* C9: a MasterData has, after every later build and parse, the content it
\* had when buildMasterData returned it, and the records of BASE_UNITS and
\* BASE_INGREDIENTS are as they were declared.
C9_SnapshotsImmutable ==
  /\ \A k \in 1..Len(snapshots) :
       DeepMaster(heap, snapshots[k].master) = snapshots[k].deep
  /\ SubSeq(heap, 1, Len(BaseHeap)) = BaseHeap

\* a build merged a mined ingredient into a record copied from
\* BASE_INGREDIENTS, after an earlier MasterData was returned and parsed with
C9_Witness ==
  /\ Len(snapshots) >= 2
  /\ call.op = "build"
  /\ \E i \in 1..Len(call.result.ingredients) :
       /\ heap[call.result.ingredients[i]].popularity # None
       /\ \E b \in 1..Len(BASE_INGREDIENTS) :
            BASE_INGREDIENTS[b].name = heap[call.result.ingredients[i]].name

\* ------------------------------------------------------------------------
\* Lines of the grammar: an amount, a unit and an ingredient, written with
\* more or fewer blanks (checked under SpecGrammar)
\* ------------------------------------------------------------------------
\* number of blanks between two parts of a line
MaxGap == 2

\* n blanks
Spaces(n) == [k \in 1..n |-> " "]

\* amounts written in digits
DigitStrings == {<<"2">>, <<"0", "0", "7">>, <<"1", "0", "0", "0">>}

\* words for units: names and aliases as the vocabulary has them, or in
\* another letter case
UnitWords == {<<"c", "l">>, <<"c", "L">>, <<"s", "t", "k", ".">>, <<"t", "s", "p">>, <<"%">>}

\* ingredient texts as the index has them as keys: a name, an alias of two
\* words, and (with the test corpus) a mined name
IngredientKeys == {<<"b", "a", "c", "a", "r", "d", "i">>, <<"w", "e", "i", "s", "s", "e", "r", " ", "r", "u", "m">>, <<"f", "i", "l", "l", "e", "r", " ", "m", "a", "r", "a", "c", "u", "j", "a">>}

\* amount, blanks, unit, blanks, ingredient
Segment(n, g1, u, g2, i) == n \o Spaces(g1) \o u \o Spaces(g2) \o i

SegmentLines ==
  {Segment(n, g1, u, g2, i) :
     n \in DigitStrings, g1 \in 0..MaxGap, u \in UnitWords, g2 \in 1..MaxGap,
     i \in IngredientKeys}

\* ingredient texts that are, once normalised, aliases of records of
\* BASE_INGREDIENTS
AliasTexts ==
  {<<"A", "n", "g", "o", "s", "t", "o", "r", "a">>, <<"a", "n", "g", "o", "s", "t", "u", "r", "a">>, <<"I", "C", "E">>,
   <<"W", "e", "i", "s", "s", "e", "r", " ", " ", "R", "u", "m">>, <<"v", "o", "d", "k", "a">>}

\* an amount, a unit and such a text
AliasLines == {<<"1", " ", "D", "a", "s", "h", " ">> \o a : a \in AliasTexts}

\* percentages of one to three digits
Percentages == {<<"5">>, <<"1", "0", "0">>}

\* the word filler in two letter cases
FillerWords == {<<"f", "i", "l", "l", "e", "r">>, <<"F", "i", "L", "L", "e", "r">>}

\* what follows the word filler, and the ingredient it names: a name of the
\* vocabulary in lower case, a name the vocabulary does not have, a name
\* after a connector, a name with a note, and a note alone
Remainders ==
  {[text |-> <<"m", "a", "r", "a", "c", "u", "j", "a">>, name |-> <<"M", "a", "r", "a", "c", "u", "j", "a">>],
   [text |-> <<"C", "o", "l", "a">>, name |-> <<"C", "o", "l", "a">>],
   [text |-> <<"v", "o", "n", " ", "R", "u", "m">>, name |-> <<"R", "u", "m">>],
   [text |-> <<"R", "u", "m", " ", "(", "x", ")">>, name |-> <<"R", "u", "m">>],
   [text |-> <<"(", "x", ")">>, name |-> <<"(", "x", ")">>]}

\* a percentage, the word filler and a remainder
PercentFiller(n, g1, g2, f, g3, x) ==
  n \o Spaces(g1) \o <<"%">> \o Spaces(g2) \o f \o Spaces(g3) \o x

PercentFillerLines ==
  {PercentFiller(n, g1, g2, f, g3, x.text) :
     n \in Percentages, g1 \in 0..MaxGap, g2 \in 0..MaxGap, f \in FillerWords,
     g3 \in 1..MaxGap, x \in Remainders}

\* the word filler and a remainder, no amount
FillerLine(f, g, x) == f \o Spaces(g) \o x

FillerLines ==
  {FillerLine(f, g, x.text) : f \in FillerWords, g \in 1..MaxGap, x \in Remainders}

\* unit words and ingredient keys for lines with other amounts than digits
FewUnitWords == {<<"h", "a", "n", "d", "v", "o", "l", "l">>, <<"c", "L">>, <<"%">>}

FewIngredientKeys == {<<"m", "i", "n", "z", "e">>, <<"w", "e", "i", "s", "s", "e", "r", " ", "r", "u", "m">>}

\* blanks, a dash in the place of the amount, a unit and an ingredient
DashLine(g0, g1, u, g2, i) == Spaces(g0) \o Segment(<<"-">>, g1, u, g2, i)

DashLines ==
  {DashLine(g0, g1, u, g2, i) :
     g0 \in 0..MaxGap, g1 \in 0..MaxGap, u \in FewUnitWords, g2 \in 1..MaxGap,
     i \in FewIngredientKeys}

\* the numbers a range is written with
RangeFrom == {<<"1">>, <<"1", "0">>}

RangeTo == {<<"2">>}

\* a range with blanks or none around its dash
Range(n1, g1, g2, n2) == n1 \o Spaces(g1) \o <<"-">> \o Spaces(g2) \o n2

\* the ingredient key of the lines with a range or a fraction
OneIngredientKey == <<"m", "i", "n", "z", "e">>

RangeLines ==
  {Segment(Range(n1, g1, g2, n2), g3, u, 1, OneIngredientKey) :
     n1 \in RangeFrom, g1 \in 0..MaxGap, g2 \in 0..MaxGap, n2 \in RangeTo,
     g3 \in 1..MaxGap, u \in FewUnitWords}

FractionLines ==
  {Segment(<<v>>, g1, u, g2, OneIngredientKey) :
     v \in VulgarFraction, g1 \in 0..MaxGap, u \in FewUnitWords, g2 \in 1..MaxGap}

\* first words that are not units, and a full stop
FirstWords == {<<"b", "a", "r">>, <<"h", "a", "n", "d">>, <<"t", "o", "p">>, <<"f", "o", "o">>, <<".">>}

\* second words: those of the aliases of two words, one of them misspelt,
\* an ingredient and a connector
SecondWords == {<<"s", "p", "o", "o", "n">>, <<"v", "o", "l", "l">>, <<"v", "o", "l">>, <<"u", "p">>, <<"R", "u", "m">>, <<"v", "o", "n">>}

\* nothing, or an ingredient
Tails == {<<>>, <<" ", "M", "i", "n", "z", "e">>}

\* the amount 2, a first word, blanks, a second word and a tail
TwoWordLine(w1, g, w2, tail) == <<"2", " ">> \o w1 \o Spaces(g) \o w2 \o tail

TwoWordLines ==
  {TwoWordLine(w1, g, w2, tail) :
     w1 \in FirstWords, g \in 1..MaxGap, w2 \in SecondWords, tail \in Tails}

\* what may stand before the ingredient: nothing or a connector word
Leads == {<<>>, <<"v", "o", "n", " ">>, <<"M", "i", "t", " ", " ">>}

\* texts of an ingredient with parenthesised notes: the text, its
\* parenthesised substrings joined by blanks, and the text without them
NoteBodies ==
  {[text |-> <<"R", "u", "m">>, notes |-> None, raw |-> <<"R", "u", "m">>],
   [text |-> <<"R", "u", "m", " ", "(", "k", "a", "l", "t", ")">>, notes |-> Some(<<"(", "k", "a", "l", "t", ")">>), raw |-> <<"R", "u", "m">>],
   [text |-> <<"(", "k", "a", "l", "t", ")", " ", "R", "u", "m", " ", "(", "x", ")">>, notes |-> Some(<<"(", "k", "a", "l", "t", ")", " ", "(", "x", ")">>), raw |-> <<"R", "u", "m">>],
   [text |-> <<"R", "u", "m", " ", "(", "x", ")", " ", "f", "r", "i", "s", "c", "h">>, notes |-> Some(<<"(", "x", ")">>), raw |-> <<"R", "u", "m", " ", " ", "f", "r", "i", "s", "c", "h">>],
   [text |-> <<"R", "u", "m", " ", "(", "a", ",", " ", "b", ")">>, notes |-> Some(<<"(", "a", ",", " ", "b", ")">>), raw |-> <<"R", "u", "m">>],
   [text |-> <<"R", "u", "m", " ", "(", "a", " ", ",", " ", "b", ")">>, notes |-> Some(<<"(", "a", " ", ",", " ", "b", ")">>), raw |-> <<"R", "u", "m">>]}

\* nothing, or a comma
Trails == {<<>>, <<",">>}

\* an amount and a unit, then a lead, a body and a trail
NoteLine(lead, body, trail) == <<"2", " ", "c", "l", " ">> \o lead \o body \o trail

NoteLines ==
  {NoteLine(lead, body.text, trail) : lead \in Leads, body \in NoteBodies, trail \in Trails}

\* what follows a percentage that is not a filler: a unit and an
\* ingredient, alone or after a number or a dash
AfterPercentage == {<<"c", "l", " ", "R", "u", "m">>, <<"2", " ", "c", "l", " ", "R", "u", "m">>, <<"-", " ", "c", "l", " ", "R", "u", "m">>}

\* a percentage, blanks or none, and the rest
PercentThenLines ==
  {Segment(n, g1, <<"%">>, g2, x) :
     n \in Percentages, g1 \in 0..MaxGap, g2 \in 0..MaxGap, x \in AfterPercentage}

\* the lines of the grammar
GrammarLines ==
  PercentThenLines \cup NoteLines \cup TwoWordLines \cup SegmentLines \cup AliasLines \cup PercentFillerLines \cup FillerLines \cup DashLines
    \cup RangeLines \cup FractionLines

\* a corpus with an ingredient whose name is an alias of a record of
\* BASE_INGREDIENTS that collates before it (Eiswürfel, alias "ice")
IcedCorpus ==
  <<[Cocktail |-> <<"I", "c", "e", "d", " ", "R", "u", "m">>,
     Rezeptur |-> <<"4", " ", "c", "l", " ", "R", "u", "m", ",", " ", "1", " ", "h", "a", "n", "d", "v", "o", "l", "l", " ", "I", "c", "e">>]>>

\* the corpora the vocabulary of these lines is built from
GrammarCorpora == {TestCorpus, IcedCorpus}

\* the editor with lines of the grammar
NextGrammar == Build(GrammarCorpora, MaxMounts) \/ Parse(GrammarLines) \/ Return

SpecGrammar == Init /\ [][NextGrammar]_vars

\* the result of the last call is the amount n, the unit of the record the
\* unit index has for u and the ingredient of the record the ingredient
\* index has for i
ParsedAs(n, u, i) ==
  /\ call.result.amount = Some(Number(DigitsValue(n), 1))
  /\ call.result.statuses.amount = "ok"
  /\ call.result.unit
       = Some(heap[MapGet(call.master.unitIndex, normaliseText(u))].name)
  /\ call.result.statuses.unit = "ok"
  /\ call.result.ingredient = Some(heap[MapGet(call.master.ingredientIndex, i)].name)

\* the last call parsed the segment of n, u and i, which the indices know
ParsedSegment(n, g1, u, g2, i) ==
  /\ call.op = "parse"
  /\ call.line = Segment(n, g1, u, g2, i)
  /\ MapHas(call.master.unitIndex, normaliseText(u))
  /\ MapHas(call.master.ingredientIndex, i)

\* C11: digits, blanks or none, a unit word of the unit index, blanks and a
\* key of the ingredient index parse to that amount, the canonical unit with
\* status ok and the canonical ingredient, however many blanks there are.
C11_AmountUnitIngredient ==
  \A n \in DigitStrings, g1 \in 0..MaxGap, u \in UnitWords, g2 \in 1..MaxGap,
     i \in IngredientKeys :
    ParsedSegment(n, g1, u, g2, i) => ParsedAs(n, u, i)

\* a percent sign after one to three digits belongs to the amount
\* (/^(\d{1,3})\s*%/), whatever the unit index says
PercentAmount(n, u) == u = <<"%">> /\ Len(n) <= 3

\* C11, amended: as C11 unless the unit word is the percent sign after one
\* to three digits.
C11_AmountUnitIngredientNoPercent ==
  \A n \in DigitStrings, g1 \in 0..MaxGap, u \in UnitWords, g2 \in 1..MaxGap,
     i \in IngredientKeys :
    ParsedSegment(n, g1, u, g2, i) /\ ~PercentAmount(n, u) => ParsedAs(n, u, i)

\* "007cL  weisser rum" was parsed: no blank before the unit, two before
\* the ingredient, an alias of the ingredient
C11_Witness ==
  /\ ParsedSegment(<<"0", "0", "7">>, 0, <<"c", "L">>, 2, <<"w", "e", "i", "s", "s", "e", "r", " ", "r", "u", "m">>)
  /\ call.result.unit = Some(<<"c", "l">>)
  /\ call.result.ingredient = Some(<<"R", "u", "m">>)

\* the records of the vocabulary master that have, among their aliases, one
\* that is text once both are normalised
RecordsWithAlias(h, records, text) ==
  {k \in 1..Len(records) :
     /\ h[records[k]].aliases # None
     /\ \E a \in 1..Len(h[records[k]].aliases[1]) :
          normaliseText(h[records[k]].aliases[1][a]) = normaliseText(text)}

\* C12: an ingredient text that is, once normalised, an alias of a record
\* of the vocabulary parses to the canonical name of that record, with
\* status ok or fuzzy, also when the corpus has an ingredient of that name.
C12_AliasResolves ==
  \A a \in AliasTexts :
    call.op = "parse" /\ call.line = <<"1", " ", "D", "a", "s", "h", " ">> \o a =>
      \A k \in RecordsWithAlias(heap, call.master.ingredients, a) :
        /\ call.result.ingredient = Some(heap[call.master.ingredients[k]].name)
        /\ call.result.statuses.ingredient \in {"ok", "fuzzy"}

\* the last call took the percent-filler path for the percentage n and a
\* remainder named name: the amount token is the percentage, the unit token
\* the word filler, no other amount or unit was looked for
ParsedAsFiller(n, g1, g2, f, name) ==
  /\ call.result.amount = Some(Number(DigitsValue(n), 1))
  /\ call.result.statuses.amount = "ok"
  /\ call.result.unit = Some(<<"F", "i", "l", "l", "e", "r">>)
  /\ call.result.statuses.unit = "ok"
  /\ call.result.ingredient = Some(name)
  /\ Len(call.result.tokens) >= 2
  /\ call.result.tokens[1]
       = Token("amount", 0, Len(n) + g1 + 1, n \o Spaces(g1) \o <<"%">>)
  /\ call.result.tokens[2]
       = Token("unit", Len(n) + g1 + 1 + g2, Len(n) + g1 + 1 + g2 + Len(f), f)
  /\ \A k \in 3..Len(call.result.tokens) :
       call.result.tokens[k].type \in {"ingredient", "notes"}

\* C13: one to three digits, a percent sign, the word filler in any letter
\* case and a remainder that is not empty parse to that amount with status
\* ok, the unit Filler with status ok and an ingredient that is not null:
\* the name the remainder resolves to, or the remainder itself.
C13_PercentFiller ==
  \A n \in Percentages, g1 \in 0..MaxGap, g2 \in 0..MaxGap, f \in FillerWords,
     g3 \in 1..MaxGap, x \in Remainders :
    call.op = "parse" /\ call.line = PercentFiller(n, g1, g2, f, g3, x.text) =>
      ParsedAsFiller(n, g1, g2, f, x.name)

\* nothing of the remainder is left once its notes are taken out
NotesOnly(x) == x.text = x.name /\ x.text[1] = "("

\* C13, amended: as C13 for a remainder that has text outside its
\* parenthesised notes.
C13_PercentFillerWithText ==
  \A n \in Percentages, g1 \in 0..MaxGap, g2 \in 0..MaxGap, f \in FillerWords,
     g3 \in 1..MaxGap, x \in Remainders :
    /\ call.op = "parse"
    /\ call.line = PercentFiller(n, g1, g2, f, g3, x.text)
    /\ ~NotesOnly(x)
    => ParsedAsFiller(n, g1, g2, f, x.name)

\* "100 %FiLLer von Rum" was parsed: the ingredient is Rum, with a token
C13_Witness ==
  /\ call.op = "parse"
  /\ call.line = PercentFiller(<<"1", "0", "0">>, 1, 0, <<"F", "i", "L", "L", "e", "r">>, 1, <<"v", "o", "n", " ", "R", "u", "m">>)
  /\ call.result.ingredient = Some(<<"R", "u", "m">>)
  /\ Len(call.result.tokens) = 3

\* C14: the word filler and a remainder that is not empty, with no amount,
\* parse to no amount and no amount token, the unit Filler and an
\* ingredient that is not missing: the name the remainder resolves to, or
\* the remainder itself.
C14_FillerIngredient ==
  \A f \in FillerWords, g \in 1..MaxGap, x \in Remainders :
    call.op = "parse" /\ call.line = FillerLine(f, g, x.text) =>
      /\ call.result.amount = None
      /\ \A k \in 1..Len(call.result.tokens) : call.result.tokens[k].type # "amount"
      /\ call.result.unit = Some(<<"F", "i", "l", "l", "e", "r">>)
      /\ call.result.ingredient = Some(x.name)
      /\ call.result.statuses.ingredient # "missing"

\* the unit and the ingredient of the last call are those of the records
\* the indices have for u and i, the unit token starting at offset start
UnitAndIngredientAs(u, i, start) ==
  /\ call.result.unit
       = Some(heap[MapGet(call.master.unitIndex, normaliseText(u))].name)
  /\ call.result.unitRaw = Some(u)
  /\ call.result.statuses.unit = "ok"
  /\ call.result.ingredient = Some(heap[MapGet(call.master.ingredientIndex, i)].name)
  /\ call.result.statuses.ingredient = "ok"
  /\ \E k \in 1..Len(call.result.tokens) :
       call.result.tokens[k] = Token("unit", start, start + Len(u), u)

\* C15: a dash as the first character that is not blank is an amount left
\* out: amount null, amountText "-", status empty; the unit and the
\* ingredient are read from the text after the dash as after a number.
C15_DashAmount ==
  \A g0 \in 0..MaxGap, g1 \in 0..MaxGap, u \in FewUnitWords, g2 \in 1..MaxGap,
     i \in FewIngredientKeys :
    call.op = "parse" /\ call.line = DashLine(g0, g1, u, g2, i) =>
      /\ call.result.amount = None
      /\ call.result.amountText = Some(<<"-">>)
      /\ call.result.statuses.amount = "empty"
      /\ call.result.tokens[1] = Token("amount", g0, g0 + 1, <<"-">>)
      /\ UnitAndIngredientAs(u, i, g0 + 1 + g1)

\* "- handvoll minze" was parsed to handvoll and Minze
C15_Witness ==
  /\ call.op = "parse"
  /\ call.line = DashLine(0, 1, <<"h", "a", "n", "d", "v", "o", "l", "l">>, 1, <<"m", "i", "n", "z", "e">>)
  /\ call.result.amountText = Some(<<"-">>)
  /\ call.result.unit = Some(<<"h", "a", "n", "d", "v", "o", "l", "l">>)
  /\ call.result.ingredient = Some(<<"M", "i", "n", "z", "e">>)

\* C16: a line that begins with a range (digits, blanks or none, a dash,
\* blanks or none, digits) has the whole range as its amount token: amount
\* null, status ambiguous, amountText the range without its blanks; the
\* first number is not read as an amount of its own.
C16_RangeAmount ==
  \A n1 \in RangeFrom, g1 \in 0..MaxGap, g2 \in 0..MaxGap, n2 \in RangeTo,
     g3 \in 1..MaxGap, u \in FewUnitWords :
    /\ call.op = "parse"
    /\ call.line = Segment(Range(n1, g1, g2, n2), g3, u, 1, OneIngredientKey)
    => /\ call.result.amount = None
       /\ call.result.statuses.amount = "ambiguous"
       /\ call.result.amountText = Some(Range(n1, 0, 0, n2))
       /\ call.result.tokens[1]
            = Token("amount", 0, Len(Range(n1, g1, g2, n2)), Range(n1, g1, g2, n2))
       /\ UnitAndIngredientAs(u, OneIngredientKey, Len(Range(n1, g1, g2, n2)) + g3)

\* "10 - 2  cL minze" was parsed: amountText is "10-2"
C16_Witness ==
  /\ call.op = "parse"
  /\ call.line = Segment(Range(<<"1", "0">>, 1, 1, <<"2">>), 2, <<"c", "L">>, 1, OneIngredientKey)
  /\ call.result.amountText = Some(<<"1", "0", "-", "2">>)
  /\ call.result.unit = Some(<<"c", "l">>)

\* the values of the vulgar fractions
FractionValue == "½" :> Number(1, 2) @@ "¼" :> Number(1, 4) @@ "¾" :> Number(3, 4)

\* C17: a line that begins with one of the characters for a half, a quarter
\* and three quarters has exactly that amount, with status ok, and the unit
\* is read from the text after that one character.
C17_VulgarFraction ==
  \A v \in VulgarFraction, g1 \in 0..MaxGap, u \in FewUnitWords, g2 \in 1..MaxGap :
    call.op = "parse" /\ call.line = Segment(<<v>>, g1, u, g2, OneIngredientKey) =>
      /\ call.result.amount = Some(FractionValue[v])
      /\ call.result.statuses.amount = "ok"
      /\ call.result.amountText = Some(<<v>>)
      /\ call.result.tokens[1] = Token("amount", 0, 1, <<v>>)
      /\ UnitAndIngredientAs(u, OneIngredientKey, 1 + g1)

\* three quarters and a unit right after it were parsed
C17_Witness ==
  /\ call.op = "parse"
  /\ call.line = Segment(<<"¾">>, 0, <<"h", "a", "n", "d", "v", "o", "l", "l">>, 1, OneIngredientKey)
  /\ call.result.amount = Some([num |-> 3, den |-> 4])
  /\ call.result.unit = Some(<<"h", "a", "n", "d", "v", "o", "l", "l">>)

\* ------------------------------------------------------------------------
\* Properties of the vocabulary (records, names, aliases and the indices)
\* ------------------------------------------------------------------------
\* the aliases of the record id of h, normalised as buildIndex has them
AliasKeys(h, id) ==
  IF h[id].aliases = None THEN {}
  ELSE {normaliseText(h[id].aliases[1][a]) : a \in 1..Len(h[id].aliases[1])}

\* the keys buildIndex sets for the record id of h
RecordKeys(h, id) == {normaliseText(h[id].name)} \cup AliasKeys(h, id)

\* no record of the list has a name that is, normalised, an alias of
\* another record of the list
NoNameIsAlias(h, records) ==
  \A a \in 1..Len(records), b \in 1..Len(records) :
    a # b => normaliseText(h[records[a]].name) \notin AliasKeys(h, records[b])

\* C18: in a MasterData that buildMasterData built, no name of a record is
\* (compared as the index compares keys) an alias of another record of its
\* kind, records mined from the corpus included.
C18_NoNameIsAlias ==
  call.op = "build" =>
    /\ NoNameIsAlias(heap, call.result.units)
    /\ NoNameIsAlias(heap, call.result.ingredients)

\* the names of the records of BASE_INGREDIENTS: mergeRecords has them in
\* its map before it merges what was mined
BaseIngredientNames == {BASE_INGREDIENTS[b].name : b \in 1..Len(BASE_INGREDIENTS)}

LastInListWinsKey(h, records, index) ==
  \A keys \in {[c \in 1..Len(records) |-> RecordKeys(h, records[c])]} :
    \A a \in 1..Len(records) :
      \A k \in keys[a] :
        /\ MapHas(index, k)
        /\ \E c \in a..Len(records) :
             /\ MapGet(index, k) = records[c]
             /\ k \in keys[c]
             /\ \A d \in (c + 1)..Len(records) : k \notin keys[d]

MaxSplitLen == 4

\* a digit, the comma, white space, a letter, the parentheses, a line break
SplitChars == {"1", ",", " ", "a", "(", ")", "\n"}

RECURSIVE TextsOf(_, _)
\* the texts of at most n characters of chars
TextsOf(chars, n) ==
  IF n = 0 THEN {<<>>}
  ELSE LET shorter == TextsOf(chars, n - 1)
       IN  shorter \cup {Append(t, c) : t \in shorter, c \in chars}

OneSegmentText == <<"1", ",", "5", " ", "c", "l", " ", "S", "i", "r", "u", "p">>

TwoSegmentText == <<"1", ",", "5", " ", "c", "l", " ", "S", "i", "r", "u", "p", ",", " ", "2", " ", "c", "l", " ", "R", "u", "m">>

SplitValues == TextsOf(SplitChars, MaxSplitLen) \cup {OneSegmentText, TwoSegmentText}

NextSplit == Split(SplitValues) \/ Return

SpecSplit == Init /\ [][NextSplit]_vars

\* the comma at offset index of value has a digit on each side
BetweenDigits(value, index) ==
  /\ CharAt(value, index) = Some(",")
  /\ CharAt(value, index - 1) # None /\ CharAt(value, index - 1)[1] \in Digit
  /\ CharAt(value, index + 1) # None /\ CharAt(value, index + 1)[1] \in Digit

\* one segment holds the characters on both sides of offset index
InsideOneSegment(segments, index) ==
  \E k \in 1..Len(segments) :
    segments[k].start < index /\ index + 1 < segments[k].end

\* C20: splitIngredientTuples never splits at a comma whose left and right
\* neighbours are both digits: the comma and both digits lie in one segment;
\* "1,5 cl Sirup" yields exactly one segment with the whole text, and
\* "1,5 cl Sirup, 2 cl Rum" yields exactly two segments.
C20_DecimalComma ==
  call.op = "split" =>
    /\ \A index \in 0..(Len(call.value) - 1) :
         BetweenDigits(call.value, index) => InsideOneSegment(call.result, index)
    /\ call.value = OneSegmentText =>
         call.result = <<[text |-> OneSegmentText, start |-> 0, end |-> Len(OneSegmentText)]>>
    /\ call.value = TwoSegmentText =>
         /\ Len(call.result) = 2
         /\ call.result[1].text = OneSegmentText
         /\ call.result[2].text = <<"2", " ", "c", "l", " ", "R", "u", "m">>

\* the text of two ingredients, the first with a decimal comma, was split
C20_Witness ==
  /\ call.op = "split"
  /\ call.value = TwoSegmentText
  /\ BetweenDigits(call.value, 1)
  /\ Len(call.result) = 2

\* ------------------------------------------------------------------------
\* Texts of the fuzzy matcher
\* ------------------------------------------------------------------------
\* the longest text that is normalised
MaxNormLen == 4

\* the longest text that is compared
MaxSimLen == 3

\* letters of both cases, with and without diaeresis, the combining
\* diaeresis, a blank and a tabulator
NormChars == {"a", "B", "Ä", "ü", "U+0308", " ", "\t"}

SimChars == {"a", "B", "ä", " "}

NextFuzzy ==
  \/ Normalise(TextsOf(NormChars, MaxNormLen))
  \/ Similarity(TextsOf(SimChars, MaxSimLen))
  \/ Return

SpecFuzzy == Init /\ [][NextFuzzy]_vars

\* the letters of the texts that have a lower-case form
UppercaseLetters == UpperAscii \cup {"Ä", "Ö", "Ü"}

Trimmed(s) == Len(s) > 0 => s[1] \notin Ws /\ s[Len(s)] \notin Ws

NoWsRun(s) == \A i \in 1..(Len(s) - 1) : ~(s[i] \in Ws /\ s[i + 1] \in Ws)

ClaimedScore(a, b) ==
  LET x == normaliseText(a)
      y == normaliseText(b)
  IN  IF x = <<>> /\ y = <<>> THEN [num |-> 1, den |-> 1]
      ELSE IF x = <<>> \/ y = <<>> THEN [num |-> 0, den |-> 1]
      ELSE [num |-> Max(Len(x), Len(y)) - levenshtein(x, y), den |-> Max(Len(x), Len(y))]

\* C22: similarity(a, b) = similarity(b, a), similarity(a, a) = 1 and
\* 0 <= similarity(a, b) <= 1, the value being 1 minus the edit distance of
\* the normalised texts over the longer normalised length (1 if both are
\* empty, 0 if exactly one is).
C22_SimilaritySymmetric ==
  call.op = "similarity" =>
    /\ call.ab.den > 0 /\ call.ba.den > 0 /\ call.aa.den > 0
    /\ ScoreEq(call.ab, call.ba)
    /\ ScoreEq(call.aa, [num |-> 1, den |-> 1])
    /\ ScoreGeq(call.ab, [num |-> 0, den |-> 1])
    /\ ScoreGeq([num |-> 1, den |-> 1], call.ab)
    /\ ScoreEq(call.ab, ClaimedScore(call.a, call.b))

\* two texts of different lengths when normalised, neither empty and
\* neither a prefix of the other, were compared
C22_Witness ==
  /\ call.op = "similarity"
  /\ Len(normaliseText(call.a)) = 3
  /\ Len(normaliseText(call.b)) = 2
  /\ ScoreEq(call.ab, [num |-> 1, den |-> 3])

\* the last call has the unit resolved, the unit token over [start, end)
\* and, if the line has an ingredient token, that token at offset next
UnitTokenAs(resolved, start, end, next) ==
  /\ call.result.statuses.unit = resolved.status
  /\ call.result.suggestions.units = resolved.suggestions
  /\ \E k \in 1..Len(call.result.tokens) :
       call.result.tokens[k] = Token("unit", start, end, slice(call.line, start, end))
  /\ \A k \in 1..Len(call.result.tokens) :
       call.result.tokens[k].type = "ingredient" => call.result.tokens[k].start = next

\* what the claim says of a line of two words after the amount, first and
\* both being what resolveUnit makes of the first word and of both words
TwoWordUnit(w1, g, w2, tail, first, both) ==
  /\ first.name = None /\ both.name # None =>
       /\ call.result.unit = both.name
       /\ UnitTokenAs(both, 2, 2 + Len(w1) + g + Len(w2),
                      skipWhitespace(call.line, 2 + Len(w1) + g + Len(w2)))
       /\ tail # <<>> =>
            \E k \in 1..Len(call.result.tokens) : call.result.tokens[k].type = "ingredient"
  /\ first.name = None /\ both.name = None =>
       /\ first.status \in {"new", "missing"}
       /\ UnitTokenAs(first, 2, 2 + Len(w1), 2 + Len(w1) + g)
       /\ \E k \in 1..Len(call.result.tokens) : call.result.tokens[k].type = "ingredient"

\* C23: if the first word after the amount does not resolve to a unit but
\* the first two words joined by one blank do, the unit is what they resolve
\* to, the unit token covers both words and the ingredient starts after the
\* second; if neither resolves, the unit has the status and suggestions of
\* the first word (new or missing), the unit token covers the first word
\* only and the ingredient text starts at the second word.
C23_TwoWordUnit ==
  \A w1 \in FirstWords, g \in 1..MaxGap, w2 \in SecondWords, tail \in Tails :
    call.op = "parse" /\ call.line = TwoWordLine(w1, g, w2, tail) =>
      TwoWordUnit(w1, g, w2, tail, resolveUnit(w1, heap, call.master),
                  resolveUnit(w1 \o <<" ">> \o w2, heap, call.master))

\* "2 bar  spoon Minze" was parsed to Barlöffel and Minze
C23_Witness ==
  /\ call.op = "parse"
  /\ call.line = TwoWordLine(<<"b", "a", "r">>, 2, <<"s", "p", "o", "o", "n">>, <<" ", "M", "i", "n", "z", "e">>)
  /\ resolveUnit(<<"b", "a", "r">>, heap, call.master).name = None
  /\ call.result.unit = Some(<<"B", "a", "r", "l", "ö", "f", "f", "e", "l">>)
  /\ call.result.unitRaw = Some(<<"b", "a", "r", " ", " ", "s", "p", "o", "o", "n">>)
  /\ call.result.ingredient = Some(<<"M", "i", "n", "z", "e">>)

\* ------------------------------------------------------------------------
\* Tokens of the resolver
\* ------------------------------------------------------------------------
\* nothing, keys of the indices, misspelt names at and around the
\* thresholds, a name close to two names, and an unknown word
TokenWords ==
  {<<>>,
   <<"c", "l">>,
   <<"c", "L">>,
   <<"D", "s", "h">>,
   <<"h", "a", "n", "d", "v", "o", "l">>,
   <<"B", "a", "c", "a", "r", "d">>,
   <<"W", "o", "d", "c", "a">>,
   <<"W", "a", "d", "c", "a">>,
   <<"L", "i", "t", "r", "o", "n", "e", "n", "s", "a", "f", "t">>,
   <<"x", "y", "z">>,
   <<"A", "N", "G", "O", "S", "T", "U", "R", "A">>,
   <<"G", "i", "m">>}

\* what follows the word: nothing, a full stop, a blank
TokenEnds == {<<>>, <<".">>, <<" ">>}

RawTokens == {w \o e : w \in TokenWords, e \in TokenEnds}

NextResolve == Build(GrammarCorpora, MaxMounts) \/ ResolveToken(RawTokens) \/ Return

SpecResolve == Init /\ [][NextResolve]_vars

\* the token as the field looks it up: a unit without the full stops and
\* commas at its end, an ingredient trimmed
CleanedToken(field, raw) ==
  IF field = "unit" THEN StripTrailing(raw, {".", ","}) ELSE trim(raw)

FieldIndex(field, master) ==
  IF field = "unit" THEN master.unitIndex ELSE master.ingredientIndex

FieldValues(field, master) ==
  IF field = "unit" THEN master.unitValues ELSE master.ingredientValues

\* the minimum and the score of ok the claim names, in hundredths
FieldMinimum(field) ==
  IF field = "unit" THEN [num |-> 70, den |-> 100] ELSE [num |-> 60, den |-> 100]

FieldOk(field) ==
  IF field = "unit" THEN [num |-> 85, den |-> 100] ELSE [num |-> 80, den |-> 100]

\* the known values that are similar enough to the token
Survivors(field, token, values) ==
  {i \in 1..Len(values) : ScoreGeq(similarity(token, values[i]), FieldMinimum(field))}

\* the result has the best of the survivors as its name, ok or fuzzy by
\* its score, and the survivors by descending score, five at most
BestOfSurvivors(field, token, values, survivors, result) ==
  /\ result.name # None
  /\ result.suggestions # <<>>
  /\ result.name[1] = result.suggestions[1]
  /\ \A i \in survivors :
       ScoreGeq(similarity(token, result.name[1]), similarity(token, values[i]))
  /\ result.status
       = IF ScoreGeq(similarity(token, result.name[1]), FieldOk(field)) THEN "ok" ELSE "fuzzy"
  /\ Len(result.suggestions) = (IF Cardinality(survivors) < 5 THEN Cardinality(survivors) ELSE 5)
  /\ \A k \in 1..Len(result.suggestions) :
       /\ \E i \in survivors : values[i] = result.suggestions[k]
       /\ k < Len(result.suggestions) =>
            ScoreGeq(similarity(token, result.suggestions[k]),
                     similarity(token, result.suggestions[k + 1]))
  /\ \A i \in survivors :
       (\A k \in 1..Len(result.suggestions) : result.suggestions[k] # values[i]) =>
         ScoreGeq(similarity(token, result.suggestions[Len(result.suggestions)]),
                  similarity(token, values[i]))

\* what the claim says of the result for a token of a field
Classified(field, token, h, index, values, result) ==
  IF trim(token) = <<>>
  THEN result = [name |-> None, status |-> "missing", suggestions |-> <<>>]
  ELSE IF MapHas(index, normaliseText(token))
  THEN result = [name |-> Some(h[MapGet(index, normaliseText(token))].name),
                 status |-> "ok", suggestions |-> <<>>]
  ELSE IF Survivors(field, token, values) # {}
  THEN BestOfSurvivors(field, token, values, Survivors(field, token, values), result)
  ELSE result = [name |-> None, status |-> "new", suggestions |-> Take(values, 5)]

\* C24: a token that is empty once cleaned resolves to null, missing, no
\* suggestions; a token whose normal form is a key of the index to the name
\* of the record, ok, no suggestions; else, if a known value is similar
\* enough (0.7 units, 0.6 ingredients), to the best value, ok if its score
\* is at least 0.85 (units) or 0.8 (ingredients) and fuzzy if not, with the
\* similar values by descending score, five at most; else to null, new and
\* the first five known values.
C24_Resolve ==
  call.op = "resolve" =>
    Classified(call.field, CleanedToken(call.field, call.raw), heap,
               FieldIndex(call.field, call.master), FieldValues(call.field, call.master),
               call.result)

\* "Wodca " was resolved as an ingredient: Wodka at the score 0.8, ok
C24_Witness ==
  /\ call.op = "resolve"
  /\ call.field = "ingredient"
  /\ call.raw = <<"W", "o", "d", "c", "a", " ">>
  /\ ~MapHas(call.master.ingredientIndex, normaliseText(call.raw))
  /\ ScoreEq(similarity(call.raw, <<"W", "o", "d", "k", "a">>), [num |-> 8, den |-> 10])
  /\ call.result.name = Some(<<"W", "o", "d", "k", "a">>)
  /\ call.result.status = "ok"

RECURSIVE Occurs(_, _, _)
\* part occurs in s at or after offset p
Occurs(part, s, p) ==
  /\ part # <<>>
  /\ p + Len(part) <= Len(s)
  /\ \/ slice(s, p, p + Len(part)) = part
     \/ Occurs(part, s, p + 1)

\* C25: of the text after the unit, notes is its parenthesised substrings in
\* order, joined by single blanks (null if there is none), and ingredientRaw
\* is the text without a leading connector word, a trailing comma and the
\* parenthesised substrings: nothing of the notes is in ingredientRaw.
C25_NotesAndIngredientRaw ==
  \A lead \in Leads, body \in NoteBodies, trail \in Trails :
    call.op = "parse" /\ call.line = NoteLine(lead, body.text, trail) =>
      /\ call.result.notes = body.notes
      /\ call.result.ingredientRaw = Some(body.raw)
      /\ body.notes # None => ~Occurs(body.notes[1], body.raw, 0)

RECURSIVE OpenAt(_, _)
\* the parentheses open after the first n characters of text, a closing
\* one without an open one not counted
OpenAt(text, n) ==
  IF n = 0 THEN 0
  ELSE IF text[n] = "(" THEN OpenAt(text, n - 1) + 1
  ELSE IF text[n] = ")" /\ OpenAt(text, n - 1) > 0 THEN OpenAt(text, n - 1) - 1
  ELSE OpenAt(text, n - 1)

\* the character k of text is a comma with a digit on each side
DecimalAt(text, k) ==
  /\ text[k] = ","
  /\ k > 1 /\ text[k - 1] \in Digit
  /\ k < Len(text) /\ text[k + 1] \in Digit

\* the comma at offset i of value follows an open parenthesis at offset p
\* with neither a closing one nor a line break between them
InOpenParenthesis(value, p, i) ==
  /\ p < i
  /\ CharAt(value, p) = Some("(")
  /\ CharAt(value, i) = Some(",")
  /\ \A j \in (p + 1)..(i - 1) : value[j + 1] \notin {")", "\n", "\r"}

\* C26: no segment has a line break, also where a parenthesis is open; no
\* segment has a comma outside parentheses (counted from the first
\* character of the segment) unless the comma is between two digits; a
\* comma inside an open parenthesis does not end the segment.
C26_SegmentBoundaries ==
  call.op = "split" =>
    /\ \A k \in 1..Len(call.result) :
         \A c \in 1..Len(call.result[k].text) :
           /\ call.result[k].text[c] \notin {"\n", "\r"}
           /\ call.result[k].text[c] = "," /\ OpenAt(call.result[k].text, c - 1) = 0
                => DecimalAt(call.result[k].text, c)
    /\ \A p \in 0..(Len(call.value) - 1), i \in 0..(Len(call.value) - 1) :
         InOpenParenthesis(call.value, p, i) =>
           \E k \in 1..Len(call.result) :
             call.result[k].start <= p /\ i < call.result[k].end

\* a text was split at a line break inside an open parenthesis that holds
\* a comma
C26_Witness ==
  /\ call.op = "split"
  /\ call.value = <<"(", ",", "\n", "a">>
  /\ Len(call.result) = 2
  /\ call.result[1].text = <<"(", ",">>

\* C29: every segment is not empty, has no white space at its ends and is
\* the text of the input from its start to its end; the segments are in
\* strictly increasing order of offsets and do not overlap; every
\* character of the input outside the segments is white space, a comma or
\* a line break.
C29_SegmentsWellFormed ==
  call.op = "split" =>
    /\ \A k \in 1..Len(call.result) :
         /\ call.result[k].text # <<>>
         /\ Trimmed(call.result[k].text)
         /\ 0 <= call.result[k].start
         /\ call.result[k].start < call.result[k].end
         /\ call.result[k].end <= Len(call.value)
         /\ call.result[k].text
              = slice(call.value, call.result[k].start, call.result[k].end)
         /\ k < Len(call.result) => call.result[k].end <= call.result[k + 1].start
    /\ \A i \in 0..(Len(call.value) - 1) :
         \/ \E k \in 1..Len(call.result) :
              call.result[k].start <= i /\ i < call.result[k].end
         \/ call.value[i + 1] \in Ws \cup {",", "\n", "\r"}

\* a text with white space around its two segments was split
C29_Witness ==
  /\ call.op = "split"
  /\ call.value = <<" ", "a", ",", "1">>
  /\ call.result = <<[text |-> <<"a">>, start |-> 1, end |-> 2],
                     [text |-> <<"1">>, start |-> 3, end |-> 4]>>

\* C28: the text of every token of a parse result is the text of the
\* line from the start to the end of the token, also where a connector
\* word was stripped from the ingredient or notes were taken out of it.
C28_TokenTextIsSlice ==
  call.op = "parse" =>
    \A k \in 1..Len(call.result.tokens) :
      /\ 0 <= call.result.tokens[k].start
      /\ call.result.tokens[k].start <= call.result.tokens[k].end
      /\ call.result.tokens[k].end <= Len(call.result.raw)
      /\ call.result.tokens[k].text
           = slice(call.result.raw, call.result.tokens[k].start, call.result.tokens[k].end)

\* the tokens of the result of the last call that have the type type
TokensOfType(type) ==
  {k \in 1..Len(call.result.tokens) : call.result.tokens[k].type = type}

\* C30: a parse result has at most one token of each type, also when a
\* percentage is not followed by the word filler and the amount is looked
\* for again after the percent sign; amountText is the text of the one
\* amount token without its white space.
C30_OneTokenPerType ==
  call.op = "parse" =>
    /\ \A type \in {"amount", "unit", "ingredient", "notes"} :
         Cardinality(TokensOfType(type)) <= 1
    /\ \A k \in TokensOfType("amount") :
         call.result.amountText = Some(RemoveWs(call.result.tokens[k].text))

\* ------------------------------------------------------------------------
\* The editor
\* ------------------------------------------------------------------------
\* the number of times the text or the MasterData of the editor changes,
\* its mounting included
MaxEdits == 3

\* the number of times the context builds a MasterData
MaxContexts == 2

\* the texts of the field: one ingredient, two ingredients, a blank
EditorValues == {<<"2", " ", "c", "l", " ", "R", "u", "m">>, <<"2", " ", "c", "l", " ", "R", "u", "m", ",", " ", "1", ",", "5", " ", "c", "l", " ", "S", "i", "r", "u", "p">>, <<" ">>}

NextEditor ==
  \/ Build(EditorCorpora, MaxContexts)
  \/ Return
  \/ Mount(EditorValues)
  \/ Edit(EditorValues, MaxEdits)
  \/ CorpusChange(MaxEdits)
  \/ Fire
  \/ Unmount

\* a timer that is due fires. Fire is enabled exactly when a timer is
\* pending and every step of Fire removes one, so that weak fairness of
\* Fire, WF_vars(Fire), says that again and again no timer is pending
TimerFairness == []<>(editor.timers = {})

SpecEditor == Init /\ [][NextEditor]_vars /\ TimerFairness

\* every pending timer is the one of the effect that last ran, for the
\* segments and the MasterData of the editor as they are now
TimersCurrent ==
  \A t \in editor.timers :
    /\ editor.mounted
    /\ t.handle = editor.handle
    /\ t.segments = splitIngredientTuples(editor.value)
    /\ t.master = editor.master

\* what was published is the parse of the segments of the text against the
\* MasterData of the editor, one entry for each segment
PublishedCurrent ==
  /\ editor.timers = {}
  /\ editor.published
       = Some(ParseSegments(splitIngredientTuples(editor.value), heap,
                            snapshots[editor.master].master))
  /\ editor.parsed = editor.published[1]
  /\ Len(editor.published[1]) = Len(splitIngredientTuples(editor.value))
  /\ \A i \in 1..Len(editor.published[1]) :
       editor.published[1][i].raw = splitIngredientTuples(editor.value)[i].text

EditorDebounced ==
  /\ Cardinality(editor.timers) <= 1
  /\ TimersCurrent
  /\ editor.calls <= 1
  /\ editor.calls = 1 => PublishedCurrent

\* C27: at most one timer is pending, and it is the timer of the text and
\* the MasterData as they are now (a parse scheduled for a text that has
\* been replaced is never published); after the last change exactly one
\* parse is published: the parse of the segments of the final text against
\* the current MasterData, one entry for each segment, its raw the text of
\* the segment; and a pending timer leads to that publication unless the
\* editor is changed again or unmounted.
C27_Debounce ==
  /\ []EditorDebounced
  /\ (editor.mounted /\ editor.timers # {})
       ~> (~editor.mounted \/ (editor.calls = 1 /\ PublishedCurrent))

\* the text was edited and the MasterData replaced after the mounting, and
\* the parse of two segments was published
C27_Witness ==
  /\ editor.mounted
  /\ editor.edits = MaxEdits
  /\ editor.master = 2
  /\ editor.calls = 1
  /\ Len(editor.published[1]) = 2
  /\ editor.published[1][2].raw = <<"1", ",", "5", " ", "c", "l", " ", "S", "i", "r", "u", "p">>

=============================================================================
